---- MODULE Spec2Model ----
(***************************************************************************)
(* Adaptive arithmetic drill: the leveling engine of native/src/lib/math.ts *)
(* and the session hook of src/features/training/useTrainingSession.ts.    *)
(*                                                                         *)
(* Elapsed times are whole milliseconds.  A result is a record             *)
(* [correct, ms]; a SkillStats value is [level, streak, mistakeStreak,     *)
(* history]; Stats is a function from the four skills to SkillStats.       *)
(***************************************************************************)
EXTENDS Integers, Sequences, FiniteSets, TLC

(***************************************************************************)
(* native/src/lib/math.ts: constants and tables                            *)
(***************************************************************************)
MAX_HISTORY == 12
MAX_LEVEL == 50

SKILL_LIST == <<"add", "sub", "mul", "div">>
Skills == {SKILL_LIST[i] : i \in 1..Len(SKILL_LIST)}

Min2(a, b) == IF a <= b THEN a ELSE b
Max2(a, b) == IF a >= b THEN a ELSE b

clamp(value, min, max) == Min2(Max2(value, min), max)

BASE_ADD_LEVELS == <<10, 20, 30, 50, 75, 100, 150, 250, 500, 1000, 1500, 2000>>
BASE_MUL_LEVELS == <<5, 9, 12, 15, 20, 25, 30, 40, 50, 60, 75, 90>>
BASE_DIV_LEVELS ==
  << [minA |-> 1, maxA |-> 5,  minB |-> 0, maxB |-> 5],
     [minA |-> 1, maxA |-> 9,  minB |-> 0, maxB |-> 9],
     [minA |-> 1, maxA |-> 12, minB |-> 0, maxB |-> 12],
     [minA |-> 2, maxA |-> 15, minB |-> 0, maxB |-> 12],
     [minA |-> 2, maxA |-> 20, minB |-> 0, maxB |-> 15],
     [minA |-> 2, maxA |-> 25, minB |-> 0, maxB |-> 20],
     [minA |-> 3, maxA |-> 30, minB |-> 0, maxB |-> 25],
     [minA |-> 3, maxA |-> 40, minB |-> 0, maxB |-> 30],
     [minA |-> 4, maxA |-> 50, minB |-> 0, maxB |-> 40],
     [minA |-> 5, maxA |-> 60, minB |-> 0, maxB |-> 50],
     [minA |-> 6, maxA |-> 75, minB |-> 0, maxB |-> 60],
     [minA |-> 8, maxA |-> 90, minB |-> 0, maxB |-> 70] >>

\* Array.prototype.slice(0, n)
SliceFirst(seq, n) == SubSeq(seq, 1, Min2(Len(seq), n))

\* Array.prototype.slice(-n)
SliceLast(seq, n) == SubSeq(seq, Max2(Len(seq) - n, 0) + 1, Len(seq))

\* the for loop of buildLinearLevels: one push per missing level
RECURSIVE LinearLoop(_, _, _)
LinearLoop(levels, current, step) ==
  IF Len(levels) >= MAX_LEVEL
    THEN levels
    ELSE LinearLoop(Append(levels, [maxA |-> current + step, maxB |-> current + step]),
                    current + step, step)

buildLinearLevels(base, step) ==
  LET first == SliceFirst(base, MAX_LEVEL)
      levels == [i \in 1..Len(first) |-> [maxA |-> first[i], maxB |-> first[i]]]
  IN IF Len(levels) = 0
       THEN levels
       ELSE LinearLoop(levels, levels[Len(levels)].maxA, step)

\* the for loop of buildDivLevels; added counts the levels pushed so far
RECURSIVE DivLoop(_, _, _, _, _)
DivLoop(levels, startIndex, minA, maxA, maxB) ==
  IF Len(levels) >= MAX_LEVEL
    THEN levels
    ELSE LET added == Len(levels) - startIndex + 1
             nextMinA == IF added % 5 = 0 THEN minA + 1 ELSE minA
         IN DivLoop(Append(levels, [minA |-> nextMinA, maxA |-> maxA + 5,
                                    minB |-> 0, maxB |-> maxB + 4]),
                    startIndex, nextMinA, maxA + 5, maxB + 4)

buildDivLevels(base) ==
  LET levels == SliceFirst(base, MAX_LEVEL)
  IN IF Len(levels) = 0
       THEN levels
       ELSE LET last == levels[Len(levels)]
            IN DivLoop(levels, Len(levels),
                       IF "minA" \in DOMAIN last THEN last.minA ELSE 1,
                       last.maxA, last.maxB)

LEVELS ==
  [skill \in Skills |->
     CASE skill = "add" -> buildLinearLevels(BASE_ADD_LEVELS, 250)
       [] skill = "sub" -> buildLinearLevels(BASE_ADD_LEVELS, 250)
       [] skill = "mul" -> buildLinearLevels(BASE_MUL_LEVELS, 5)
       [] skill = "div" -> buildDivLevels(BASE_DIV_LEVELS)]

createDefaultStats ==
  [skill \in Skills |-> [level |-> 1, streak |-> 0, mistakeStreak |-> 0, history |-> <<>>]]

\* slip: the target time has no floor
getTargetMs_NoFloor(level) == Min2(6000 - level * 300, 6000)

getTargetMs(level) == clamp(6000 - level * 300, 2400, 6000)

(***************************************************************************)
(* updateStats, split along its statements                                 *)
(***************************************************************************)

\* slip: slice(0, MAX_HISTORY) keeps the oldest results instead of the newest
NextHistory_KeepOldest(history, correct, ms) ==
  SliceFirst(Append(history, [correct |-> correct, ms |-> ms]), MAX_HISTORY)

\* const nextHistory = [...current.history, { correct, ms }].slice(-MAX_HISTORY)
NextHistory(history, correct, ms) ==
  SliceLast(Append(history, [correct |-> correct, ms |-> ms]), MAX_HISTORY)

NextStreak(current, correct) == IF correct THEN current.streak + 1 ELSE 0

NextMistakeStreak(current, correct) == IF correct THEN 0 ELSE current.mistakeStreak + 1

\* slip: ms < target instead of ms <= target
PromotionThreshold_Strict(current, correct, ms) ==
  correct /\ (IF correct THEN current.streak + 1 ELSE 0) >= 3
          /\ ms < getTargetMs(current.level)

\* slip: the elapsed time is not looked at
PromotionThreshold_NoTime(current, correct, ms) ==
  correct /\ (IF correct THEN current.streak + 1 ELSE 0) >= 3

\* if (correct && nextStreak >= 3 && ms <= getTargetMs(current.level))
PromotionThreshold(current, correct, ms) ==
  correct /\ NextStreak(current, correct) >= 3 /\ ms <= getTargetMs(current.level)

\* slip: a single miss already demotes
DemotionThreshold_Single(current, correct) ==
  ~correct /\ (IF correct THEN 0 ELSE current.mistakeStreak + 1) >= 1

\* slip: the demotion waits for a third miss
DemotionThreshold_Third(current, correct) ==
  ~correct /\ (IF correct THEN 0 ELSE current.mistakeStreak + 1) >= 3

\* if (!correct && nextMistakeStreak >= 2)
DemotionThreshold(current, correct) ==
  ~correct /\ NextMistakeStreak(current, correct) >= 2

\* slip: the promoted level is not clamped
PromotedLevel_NoClamp(level, levelMax) == level + 1

\* nextLevel = clamp(current.level + 1, 1, levelMax)
PromotedLevel(level, levelMax) == clamp(level + 1, 1, levelMax)

\* nextLevel = clamp(current.level - 1, 1, levelMax)
DemotedLevel(level, levelMax) == clamp(level - 1, 1, levelMax)

\* slip: a promotion keeps the streak
StreakAfter_Kept(correct, leveledUp, nextStreak) ==
  IF correct THEN nextStreak ELSE 0

\* streak: correct && !leveledUp ? nextStreak : 0
StreakAfter(correct, leveledUp, nextStreak) ==
  IF correct /\ ~leveledUp THEN nextStreak ELSE 0

\* slip: a demotion keeps the mistake streak
MistakeStreakAfter_Kept(correct, leveledDown, nextMistakeStreak) ==
  IF ~correct THEN nextMistakeStreak ELSE 0

\* mistakeStreak: !correct && !leveledDown ? nextMistakeStreak : 0
MistakeStreakAfter(correct, leveledDown, nextMistakeStreak) ==
  IF ~correct /\ ~leveledDown THEN nextMistakeStreak ELSE 0

updateSkill(current, levelMax, correct, ms) ==
  LET nextStreak == NextStreak(current, correct)
      nextMistakeStreak == NextMistakeStreak(current, correct)
      up == PromotionThreshold(current, correct, ms)
      upLevel == IF up THEN PromotedLevel(current.level, levelMax) ELSE current.level
      leveledUp == up /\ upLevel # current.level
      down == DemotionThreshold(current, correct)
      nextLevel == IF down THEN DemotedLevel(current.level, levelMax) ELSE upLevel
      leveledDown == down /\ nextLevel # current.level
  IN [level |-> nextLevel,
      streak |-> StreakAfter(correct, leveledUp, nextStreak),
      mistakeStreak |-> MistakeStreakAfter(correct, leveledDown, nextMistakeStreak),
      history |-> NextHistory(current.history, correct, ms)]

\* slip: every result counts for the streak of the first skill as well
updateStats_CountsForFirst(stats, skill, correct, ms) ==
  [stats EXCEPT ![skill] = updateSkill(stats[skill], Len(LEVELS[skill]), correct, ms),
                ![SKILL_LIST[1]].streak = @ + 1]

updateStats(stats, skill, correct, ms) ==
  [stats EXCEPT ![skill] = updateSkill(stats[skill], Len(LEVELS[skill]), correct, ms)]

(***************************************************************************)
(* pickSkill and generateQuestion.  Math.random() is the fraction num/den, *)
(* 0 <= num < den; accuracies and weights are kept as exact multiples of   *)
(* 1/Scale, Scale being 100 times the least common multiple of 1..12.      *)
(***************************************************************************)
Scale == 100 * 27720

RECURSIVE CountCorrect(_)
CountCorrect(history) ==
  IF history = <<>> THEN 0
  ELSE (IF Head(history).correct THEN 1 ELSE 0) + CountCorrect(Tail(history))

\* accuracyFromHistory(history) * Scale
accuracyFromHistory(history) ==
  IF Len(history) = 0 THEN 0
  ELSE (CountCorrect(history) * Scale) \div Len(history)

\* getAccuracy(stats) of one skill's stats, times Scale
getAccuracy(skillStats) == accuracyFromHistory(skillStats.history)

\* averages of at most MAX_HISTORY whole numbers are kept as exact multiples
\* of 1/AverageScale, the least common multiple of 1..12
AverageScale == 27720

RECURSIVE SumMs(_)
SumMs(history) ==
  IF history = <<>> THEN 0 ELSE Head(history).ms + SumMs(Tail(history))

\* slip: the total is divided by MAX_HISTORY, not by the number of results
getAverageMs_OverTwelve(skillStats) ==
  IF Len(skillStats.history) = 0 THEN 0
  ELSE (SumMs(skillStats.history) * AverageScale) \div MAX_HISTORY

\* getAverageMs(stats) of one skill's stats, times AverageScale
getAverageMs(skillStats) ==
  IF Len(skillStats.history) = 0 THEN 0
  ELSE (SumMs(skillStats.history) * AverageScale) \div Len(skillStats.history)

\* history.length === 0 ? 0.55 : accuracyFromHistory(history), times Scale
SkillScore(stats, skill) ==
  IF Len(stats[skill].history) = 0
    THEN (55 * Scale) \div 100
    ELSE accuracyFromHistory(stats[skill].history)

\* slip: a later skill with the same score takes over
WeakestLoop_LastOfTies(stats, i, weakest, weakestScore) ==
  LET RECURSIVE Loop(_, _, _)
      Loop(j, w, ws) ==
        IF j > Len(SKILL_LIST) THEN w
        ELSE IF SkillScore(stats, SKILL_LIST[j]) <= ws
               THEN Loop(j + 1, SKILL_LIST[j], SkillScore(stats, SKILL_LIST[j]))
               ELSE Loop(j + 1, w, ws)
  IN Loop(i, weakest, weakestScore)

\* SKILL_LIST.forEach in getWeakestSkill from SKILL_LIST[i] on; the scores are
\* times Scale
RECURSIVE WeakestLoop(_, _, _, _)
WeakestLoop(stats, i, weakest, weakestScore) ==
  IF i > Len(SKILL_LIST) THEN weakest
  ELSE LET score == SkillScore(stats, SKILL_LIST[i])
       IN IF score < weakestScore
            THEN WeakestLoop(stats, i + 1, SKILL_LIST[i], score)
            ELSE WeakestLoop(stats, i + 1, weakest, weakestScore)

getWeakestSkill(stats) == WeakestLoop(stats, 1, SKILL_LIST[1], Scale)

\* slip: the weight has no floor
SkillWeight_NoFloor(stats, skill) == Scale - SkillScore(stats, skill)

\* Math.max(0.15, 1 - accuracy), times Scale
SkillWeight(stats, skill) == Max2((15 * Scale) \div 100, Scale - SkillScore(stats, skill))

\* the for loop of pickSkill from SKILL_LIST[i] on; roll is roll * Scale * den
RECURSIVE PickLoop(_, _, _, _)
PickLoop(stats, i, roll, den) ==
  IF i > Len(SKILL_LIST)
    THEN "add"
    ELSE LET next == roll - SkillWeight(stats, SKILL_LIST[i]) * den
         IN IF next <= 0 THEN SKILL_LIST[i] ELSE PickLoop(stats, i + 1, next, den)

RECURSIVE SumWeights(_, _)
SumWeights(stats, i) ==
  IF i > Len(SKILL_LIST) THEN 0
  ELSE SkillWeight(stats, SKILL_LIST[i]) + SumWeights(stats, i + 1)

pickSkill(stats, num, den) ==
  LET total == SumWeights(stats, 1)
  IN PickLoop(stats, 1, num * total, den)

\* slip: the level is taken as the index
getLevelSpec_LevelAsIndex(skill, level) ==
  LET specs == LEVELS[skill]
  IN specs[clamp(level, 0, Len(specs) - 1) + 1]

getLevelSpec(skill, level) ==
  LET specs == LEVELS[skill]
  IN specs[clamp(level - 1, 0, Len(specs) - 1) + 1]

\* spec.minA ?? 0, spec.minB ?? 0
SpecMinA(spec) == IF "minA" \in DOMAIN spec THEN spec.minA ELSE 0
SpecMinB(spec) == IF "minB" \in DOMAIN spec THEN spec.minB ELSE 0

SKILL_SYMBOLS == [add |-> "+", sub |-> "-", mul |-> "x", div |-> "/"]

\* slip: the division shows the drawn b as its dividend
generateQuestion_DrawnDividend(skill, level, allowNegative, a, b, id) ==
  CASE skill = "add" ->
         [id |-> id, text |-> <<a, "+", b>>, answer |-> a + b, skill |-> skill, level |-> level]
    [] skill = "sub" ->
         LET high == IF allowNegative THEN a ELSE Max2(a, b)
             low == IF allowNegative THEN b ELSE Min2(a, b)
         IN [id |-> id, text |-> <<high, "-", low>>, answer |-> high - low,
             skill |-> skill, level |-> level]
    [] skill = "mul" ->
         [id |-> id, text |-> <<a, "x", b>>, answer |-> a * b, skill |-> skill, level |-> level]
    [] OTHER ->
         LET divisor == Max2(1, a)
             quotient == b
         IN [id |-> id, text |-> <<b, "/", divisor>>, answer |-> quotient,
             skill |-> skill, level |-> level]

\* the question generateQuestion returns when randomInt draws a and b; the
\* text is kept as <<first operand, symbol, second operand>>
generateQuestion(skill, level, allowNegative, a, b, id) ==
  CASE skill = "add" ->
         [id |-> id, text |-> <<a, "+", b>>, answer |-> a + b, skill |-> skill, level |-> level]
    [] skill = "sub" ->
         LET high == IF allowNegative THEN a ELSE Max2(a, b)
             low == IF allowNegative THEN b ELSE Min2(a, b)
         IN [id |-> id, text |-> <<high, "-", low>>, answer |-> high - low,
             skill |-> skill, level |-> level]
    [] skill = "mul" ->
         [id |-> id, text |-> <<a, "x", b>>, answer |-> a * b, skill |-> skill, level |-> level]
    [] OTHER ->
         LET divisor == Max2(1, a)
             quotient == b
             dividend == divisor * quotient
         IN [id |-> id, text |-> <<dividend, "/", divisor>>, answer |-> quotient,
             skill |-> skill, level |-> level]

(***************************************************************************)
(* providers/mathTrainingProvider.ts                                       *)
(***************************************************************************)
DEFAULT_SETTINGS == [questionCount |-> 10, timeLimitSeconds |-> 10, negativeLevel |-> 0]

clampValue(value, min, max) == Min2(Max2(value, min), max)

ControlIds == {"questionCount", "timeLimitSeconds", "negativeLevel"}

\* settingControls: min, max and step of each control, in array order
settingControls ==
  << [id |-> "questionCount", min |-> 5, max |-> 50, step |-> 1],
     [id |-> "timeLimitSeconds", min |-> 5, max |-> 60, step |-> 5],
     [id |-> "negativeLevel", min |-> 0, max |-> MAX_LEVEL, step |-> 1] >>

\* control.getValue(settings)
ControlGetValue(control, settings) == settings[control.id]

\* control.setValue(settings, value): each control clamps with its own literals
ControlSetValue(control, settings, value) ==
  CASE control.id = "questionCount" ->
         [settings EXCEPT !.questionCount = clampValue(value, 5, 50)]
    [] control.id = "timeLimitSeconds" ->
         [settings EXCEPT !.timeLimitSeconds = clampValue(value, 5, 60)]
    [] OTHER ->
         [settings EXCEPT !.negativeLevel = clampValue(value, 0, MAX_LEVEL)]

\* allowNegativeAnswer(question, settings), and the same test in createQuestion
\* slip: negative results come one level late
allowNegativeFor_Above(skill, level, settings) ==
  skill = "sub" /\ settings.negativeLevel > 0 /\ level > settings.negativeLevel

allowNegativeFor(skill, level, settings) ==
  skill = "sub" /\ settings.negativeLevel > 0 /\ level >= settings.negativeLevel

(***************************************************************************)
(* Answer text: a sequence of one-character strings                        *)
(***************************************************************************)
Digits == <<"0", "1", "2", "3", "4", "5", "6", "7", "8", "9">>
DigitChars == {Digits[i] : i \in 1..10}
DigitValue(c) == (CHOOSE i \in 1..10 : Digits[i] = c) - 1

\* the characters of seq that are in keep, in their order
Filter(seq, keep) == SelectSeq(seq, LAMBDA c : c \in keep)

\* String.prototype.trim
RECURSIVE TrimStart(_)
TrimStart(seq) ==
  IF seq # <<>> /\ Head(seq) = " " THEN TrimStart(Tail(seq)) ELSE seq

RECURSIVE TrimEnd(_)
TrimEnd(seq) ==
  IF seq # <<>> /\ seq[Len(seq)] = " " THEN TrimEnd(SubSeq(seq, 1, Len(seq) - 1)) ELSE seq

Trim(seq) == TrimEnd(TrimStart(seq))

sanitizeNumericInput(raw, allowNegative) ==
  LET cleaned == Filter(raw, DigitChars \cup {"-"})
  IN IF ~allowNegative
       THEN Filter(cleaned, DigitChars)
       ELSE IF cleaned # <<>> /\ Head(cleaned) = "-"
              THEN <<"-">> \o Filter(Tail(cleaned), DigitChars)
              ELSE Filter(cleaned, DigitChars)

\* value of a sequence of digits
RECURSIVE DigitsValue(_)
DigitsValue(seq) ==
  IF seq = <<>> THEN 0
  ELSE DigitsValue(SubSeq(seq, 1, Len(seq) - 1)) * 10 + DigitValue(seq[Len(seq)])

RECURSIVE DropZeros(_)
DropZeros(seq) == IF seq # <<>> /\ Head(seq) = "0" THEN DropZeros(Tail(seq)) ELSE seq

\* the digits of 2^1024 - 2^970, halfway between Number.MAX_VALUE and 2^1024:
\* the least integer that Number() rounds to Infinity
INFINITY_FROM ==
  << 1, 7, 9, 7, 6, 9, 3, 1, 3, 4, 8, 6, 2, 3, 1, 5, 8, 0, 7, 9, 3, 7, 2, 8, 9, 7, 1, 4, 0, 5,
     3, 0, 3, 4, 1, 5, 0, 7, 9, 9, 3, 4, 1, 3, 2, 7, 1, 0, 0, 3, 7, 8, 2, 6, 9, 3, 6, 1, 7, 3,
     7, 7, 8, 9, 8, 0, 4, 4, 4, 9, 6, 8, 2, 9, 2, 7, 6, 4, 7, 5, 0, 9, 4, 6, 6, 4, 9, 0, 1, 7,
     9, 7, 7, 5, 8, 7, 2, 0, 7, 0, 9, 6, 3, 3, 0, 2, 8, 6, 4, 1, 6, 6, 9, 2, 8, 8, 7, 9, 1, 0,
     9, 4, 6, 5, 5, 5, 5, 4, 7, 8, 5, 1, 9, 4, 0, 4, 0, 2, 6, 3, 0, 6, 5, 7, 4, 8, 8, 6, 7, 1,
     5, 0, 5, 8, 2, 0, 6, 8, 1, 9, 0, 8, 9, 0, 2, 0, 0, 0, 7, 0, 8, 3, 8, 3, 6, 7, 6, 2, 7, 3,
     8, 5, 4, 8, 4, 5, 8, 1, 7, 7, 1, 1, 5, 3, 1, 7, 6, 4, 4, 7, 5, 7, 3, 0, 2, 7, 0, 0, 6, 9,
     8, 5, 5, 5, 7, 1, 3, 6, 6, 9, 5, 9, 6, 2, 2, 8, 4, 2, 9, 1, 4, 8, 1, 9, 8, 6, 0, 8, 3, 4,
     9, 3, 6, 4, 7, 5, 2, 9, 2, 7, 1, 9, 0, 7, 4, 1, 6, 8, 4, 4, 4, 3, 6, 5, 5, 1, 0, 7, 0, 4,
     3, 4, 2, 7, 1, 1, 5, 5, 9, 6, 9, 9, 5, 0, 8, 0, 9, 3, 0, 4, 2, 8, 8, 0, 1, 7, 7, 9, 0, 4,
     1, 7, 4, 4, 9, 7, 7, 9, 2 >>

\* Number.isFinite(Number(digits)) for a text of decimal digits
NumberIsFinite(digits) ==
  LET d == DropZeros(digits)
  IN \/ Len(d) < Len(INFINITY_FROM)
     \/ /\ Len(d) = Len(INFINITY_FROM)
        /\ \E i \in 1..Len(d) :
             /\ DigitValue(d[i]) < INFINITY_FROM[i]
             /\ \A j \in 1..(i - 1) : DigitValue(d[j]) = INFINITY_FROM[j]

\* Number(digits) for a text of decimal digits with a finite value; a text of
\* more than 9 significant digits stands for a number beyond every answer
NumberOf(digits) ==
  IF Len(DropZeros(digits)) > 9 THEN 1000000000 ELSE DigitsValue(DropZeros(digits))

parseNumericInput(value) ==
  IF value = <<>> THEN [error |-> "empty"]
  ELSE IF value = <<"-">> THEN [error |-> "incomplete"]
  ELSE LET negative == Head(value) = "-"
           digits == IF negative THEN Tail(value) ELSE value
       IN IF ~NumberIsFinite(digits)
            THEN [error |-> "invalid"]
            ELSE [error |-> "none",
                  value |-> IF negative THEN 0 - NumberOf(digits) ELSE NumberOf(digits)]

\* String(n) for an integer n
RECURSIVE NatToText(_)
NatToText(n) ==
  IF n < 10 THEN <<Digits[n + 1]>> ELSE NatToText(n \div 10) \o <<Digits[(n % 10) + 1]>>

formatExpected(question) ==
  IF question.answer < 0 THEN <<"-">> \o NatToText(0 - question.answer)
  ELSE NatToText(question.answer)

\* provider.answer.errors
ErrorMessage(kind) ==
  CASE kind = "empty" -> "Type an answer."
    [] kind = "emptyKeypad" -> "Tap numbers to continue."
    [] kind = "incomplete" -> "Type a number."
    [] OTHER -> "Numbers only for now."

(***************************************************************************)
(* State                                                                   *)
(***************************************************************************)
VARIABLES
  \* useTrainingSession: useState
  stats,          \* useState(initialState.stats), mirrored by statsRef
  mode,           \* useState(initialState.mode), mirrored by modeRef
  screen,
  settings,
  question,       \* a Question or Null
  answer,         \* the answer text
  feedback,       \* a Feedback or Null
  error,          \* a message or NoError
  session,        \* [correct, wrong]
  questionIndex,
  timeLeft,
  answered,
  \* timers
  advanceTimer,   \* advanceTimerRef: "null", or a timeout "pending" or "fired"
  interval,       \* the countdown effect's setInterval is running
  \* bookkeeping of the verification
  nextId,         \* questions drawn so far, plus 1: the next Question.id
  ledger,         \* per Question.id: results scored, session gain, timeouts
  stale,          \* Null, or what the handlers still close over while a render waits
  completions,    \* calls of onSessionComplete
  call,           \* the operation that produced this state, with its arguments
  calls,          \* number of updateStats calls made by StatsSpec / HistorySpec
  demoted,        \* per skill: the latest result for the skill lowered its level
  log             \* per skill: every result recorded since the default stats

hookVars == <<mode, screen, settings, question, answer, feedback, error, session,
              questionIndex, timeLeft, answered, advanceTimer, interval, stale,
              nextId, ledger, completions>>

engineVars == <<calls, demoted, log>>

vars == <<stats, call, hookVars, engineVars>>

Null == [isNull |-> TRUE]
NoError == "null"

NoCall == [op |-> "none"]

(***************************************************************************)
(* Bounds of the exploration                                               *)
(***************************************************************************)
\* updateStats calls explored after the starting stats
MaxCalls == 4

\* elapsed times tried: on the lowest target time (getTargetMs = 2400 from
\* level 12 on), and one millisecond above the highest one (5700 at level 1)
ElapsedMs == {2400, 5701}

\* fast correct answers a learner has given for one skill before the
\* exploration starts: none, or enough to stand one answer short of MAX_LEVEL
WarmUps == {0, 3 * (MAX_LEVEL - 1) - 1}

\* n fast correct answers for one skill, applied one after the other (the
\* first half of them, then the rest)
RECURSIVE Drilled(_, _, _)
Drilled(s, skill, n) ==
  IF n = 0 THEN s
  ELSE IF n = 1 THEN updateStats(s, skill, TRUE, 2400)
  ELSE LET half == Drilled(s, skill, n \div 2)
       IN IF half[skill].level >= 1 THEN Drilled(half, skill, n - (n \div 2)) ELSE half

EngineInit ==
  /\ calls = 0
  /\ demoted = [skill \in Skills |-> FALSE]
  /\ log = [skill \in Skills |-> <<>>]

\* the hook's useState / useRef initial values
HookInit(initialSettings, initialMode) ==
  /\ mode = initialMode
  /\ screen = "menu"
  /\ settings = initialSettings
  /\ question = Null
  /\ answer = <<>>
  /\ feedback = Null
  /\ error = NoError
  /\ session = [correct |-> 0, wrong |-> 0]
  /\ questionIndex = 1
  /\ timeLeft = initialSettings.timeLimitSeconds
  /\ answered = FALSE
  /\ advanceTimer = "null"
  /\ interval = FALSE
  /\ stale = Null
  /\ nextId = 1
  /\ ledger = <<>>
  /\ completions = 0

(***************************************************************************)
(* StatsSpec: any sequence of updateStats calls                            *)
(***************************************************************************)
StatsInit ==
  /\ \E skill \in Skills, n \in WarmUps : stats = Drilled(createDefaultStats, skill, n)
  /\ call = NoCall
  /\ EngineInit
  /\ HookInit(DEFAULT_SETTINGS, "mix")

UpdateStats(skill, correct, ms) ==
  /\ calls < MaxCalls
  /\ stats' = updateStats(stats, skill, correct, ms)
  /\ call' = [op |-> "updateStats", skill |-> skill, correct |-> correct, ms |-> ms,
              before |-> stats, afterDemotion |-> demoted[skill]]
  /\ calls' = calls + 1
  /\ demoted' = [demoted EXCEPT ![skill] = stats'[skill].level < stats[skill].level]
  /\ UNCHANGED <<log, hookVars>>

StatsNext == \E skill \in Skills, correct \in BOOLEAN, ms \in ElapsedMs :
               UpdateStats(skill, correct, ms)

StatsSpec == StatsInit /\ [][StatsNext]_vars

\* the answered skill's stats before and after the last updateStats call
Before == call.before[call.skill]
After == stats[call.skill]
Updated == call.op = "updateStats"

(***************************************************************************)
(* useTrainingSession on the page.  The state variables hold the latest    *)
(* value given to each useState setter.  A handler reads what its render   *)
(* closed over (Closure) and the refs; functional updaters read the latest *)
(* value.  A handler the page dispatches is followed at once by React's    *)
(* render and the effects; the updates made in a timer callback wait for a *)
(* render React schedules as a task of its own (Render), and until that    *)
(* task runs the page still dispatches the handlers of the last render.    *)
(***************************************************************************)
\* questions drawn in one run
MaxQuestions == 2

\* Math.random() in pickSkill is one of 0/RollDen .. (RollDen-1)/RollDen
RollDen == 2

\* randomInt(min, max) for a and b: both at their maximum, or a at its
\* minimum and b at its maximum
DrawPairs == {<<"min", "max">>}

Draws == [roll : 0..(RollDen - 1), pair : DrawPairs]

Drawn(end, min, max) == IF end = "min" THEN min ELSE max

\* Date.now() - startTimeRef.current at a submit and at a timeout
SubmitElapsedMs == {2400}
TimeoutElapsedMs == {5000}

\* persisted settings read by initialState: fields missing and out of bounds
SavedSettings == { [questionCount |-> 3, timeLimitSeconds |-> 0, negativeLevel |-> 1] }

Modes == Skills \cup {"mix"}

\* modes chosen on the menu
MenuModes == {"mix", "sub"}

\* { ...provider.settings.defaultValue, ...savedSettings }
MergeSettings(defaults, saved) ==
  [f \in DOMAIN defaults |-> IF f \in DOMAIN saved THEN saved[f] ELSE defaults[f]]

RECURSIVE NormalizeLoop(_, _, _)
NormalizeLoop(next, controls, i) ==
  IF i > Len(controls)
    THEN next
    ELSE LET control == controls[i]
             value == ControlGetValue(control, next)
             clamped == Min2(Max2(value, control.min), control.max)
         IN NormalizeLoop(IF value # clamped THEN ControlSetValue(control, next, clamped)
                                              ELSE next,
                          controls, i + 1)

\* slip: the loaded settings are taken as they are
normalizeSettings_AsLoaded(s, controls) == s

normalizeSettings(s, controls) == NormalizeLoop(s, controls, 1)

\* the latest useState values
View ==
  [screen |-> screen, question |-> question, answer |-> answer, feedback |-> feedback,
   error |-> error, session |-> session, questionIndex |-> questionIndex,
   timeLeft |-> timeLeft, answered |-> answered]

\* the useState values of the last render: what the handlers closed over
Closure == IF stale = Null THEN View ELSE stale.seen

\* the latest useState values, the refs and the bookkeeping, as one record
\* that the handlers below update; fresh tells that a new feedback or question
\* object was made since the last render
World ==
  [screen |-> screen, question |-> question, answer |-> answer, feedback |-> feedback,
   error |-> error, session |-> session, questionIndex |-> questionIndex,
   timeLeft |-> timeLeft, answered |-> answered,
   stats |-> stats, mode |-> mode, advanceTimer |-> advanceTimer, nextId |-> nextId,
   ledger |-> ledger, completions |-> completions,
   fresh |-> IF stale = Null THEN FALSE ELSE stale.fresh]

clearAdvanceTimer(w) == [w EXCEPT !.advanceTimer = "null"]

\* const allowNegativeAnswer = useMemo(...)
allowNegativeAnswer(c) ==
  IF c.question = Null THEN FALSE
  ELSE allowNegativeFor(c.question.skill, c.question.level, settings)

\* slip: the level is the one of the question before
createQuestion_LevelOfLast(selectedMode, w, draw) ==
  LET skill == IF selectedMode = "mix" THEN pickSkill(w.stats, draw.roll, RollDen)
                                         ELSE selectedMode
      level == IF w.question = Null THEN w.stats[skill].level ELSE w.question.level
      spec == getLevelSpec(skill, level)
  IN generateQuestion(skill, level, allowNegativeFor(skill, level, settings),
                      Drawn(draw.pair[1], SpecMinA(spec), spec.maxA),
                      Drawn(draw.pair[2], SpecMinB(spec), spec.maxB),
                      w.nextId)

createQuestion(selectedMode, w, draw) ==
  LET skill == IF selectedMode = "mix" THEN pickSkill(w.stats, draw.roll, RollDen)
                                         ELSE selectedMode
      level == w.stats[skill].level
      spec == getLevelSpec(skill, level)
  IN generateQuestion(skill, level, allowNegativeFor(skill, level, settings),
                      Drawn(draw.pair[1], SpecMinA(spec), spec.maxA),
                      Drawn(draw.pair[2], SpecMinB(spec), spec.maxB),
                      w.nextId)

NewEntry == [scored |-> 0, gain |-> 0, zeros |-> 0, timeouts |-> 0]

beginQuestion(w, nextQuestion) ==
  [w EXCEPT !.question = nextQuestion, !.answer = <<>>, !.error = NoError,
            !.feedback = Null, !.answered = FALSE,
            !.timeLeft = settings.timeLimitSeconds,
            !.nextId = @ + 1, !.ledger = Append(@, NewEntry), !.fresh = TRUE]

\* slip: the counters of the session before are kept
startSession_KeepsCounters(w, nextMode, draw) ==
  LET w1 == [clearAdvanceTimer(w) EXCEPT !.mode = nextMode,
                                         !.questionIndex = 1, !.screen = "drill"]
  IN beginQuestion(w1, createQuestion(nextMode, w1, draw))

startSession(w, nextMode, draw) ==
  LET w1 == [clearAdvanceTimer(w) EXCEPT !.mode = nextMode,
                                         !.session = [correct |-> 0, wrong |-> 0],
                                         !.questionIndex = 1, !.screen = "drill"]
  IN beginQuestion(w1, createQuestion(nextMode, w1, draw))

\* slip: the feedback of the question left behind stays
goToMenu_KeepsFeedback(w) ==
  [clearAdvanceTimer(w) EXCEPT !.screen = "menu", !.question = Null,
                               !.error = NoError, !.answer = <<>>, !.answered = FALSE]

\* slip: the back button leaves the screen as it is
goToMenu_Stays(w) ==
  [clearAdvanceTimer(w) EXCEPT !.question = Null, !.feedback = Null,
                               !.error = NoError, !.answer = <<>>, !.answered = FALSE]

goToMenu(w) ==
  [clearAdvanceTimer(w) EXCEPT !.screen = "menu", !.question = Null, !.feedback = Null,
                               !.error = NoError, !.answer = <<>>, !.answered = FALSE]

\* slip: every result counts as a wrong one
SessionAfter_WrongOnly(prev, correct) ==
  [correct |-> prev.correct, wrong |-> prev.wrong + 1]

\* setSession((prev) => ...)
SessionAfter(prev, correct) ==
  [correct |-> prev.correct + (IF correct THEN 1 ELSE 0),
   wrong |-> prev.wrong + (IF correct THEN 0 ELSE 1)]

\* the object given to setFeedback
FeedbackFor(q, correct, elapsed, timedOut) ==
  [correct |-> correct, expected |-> formatExpected(q), ms |-> elapsed,
   skill |-> q.skill, level |-> q.level, timedOut |-> timedOut]

applyResult(c, w, correct, elapsed, timedOut) ==
  IF c.question = Null
    THEN w
    ELSE LET nextSession == SessionAfter(w.session, correct)
         IN [w EXCEPT !.stats = updateStats(@, c.question.skill, correct, elapsed),
                      !.feedback = FeedbackFor(c.question, correct, elapsed, timedOut),
                      !.session = nextSession,
                      !.error = NoError,
                      !.answered = TRUE,
                      !.fresh = TRUE,
                      !.ledger[c.question.id].scored = @ + 1,
                      !.ledger[c.question.id].gain =
                         @ + (nextSession.correct + nextSession.wrong)
                           - (w.session.correct + w.session.wrong)]

\* slip: a bare sign gets the message of an invalid number
SubmitError_NoIncomplete(parseError, useKeypad) ==
  IF parseError = "empty"
    THEN (IF useKeypad THEN ErrorMessage("emptyKeypad") ELSE ErrorMessage("empty"))
    ELSE ErrorMessage("invalid")

SubmitError(parseError, useKeypad) ==
  IF parseError = "empty"
    THEN (IF useKeypad THEN ErrorMessage("emptyKeypad") ELSE ErrorMessage("empty"))
    ELSE IF parseError = "incomplete" THEN ErrorMessage("incomplete")
                                      ELSE ErrorMessage("invalid")

\* slip: a rejected answer is scored as a wrong one
handleSubmit_ScoresRejected(c, w, useKeypad, elapsed) ==
  IF c.question = Null \/ c.answered
    THEN w
    ELSE LET cleaned == sanitizeNumericInput(Trim(c.answer), allowNegativeAnswer(c))
             parsed == parseNumericInput(cleaned)
         IN IF parsed.error # "none"
              THEN [applyResult(c, w, FALSE, elapsed, FALSE)
                      EXCEPT !.error = SubmitError(parsed.error, useKeypad)]
              ELSE applyResult(c, clearAdvanceTimer(w),
                               parsed.value = c.question.answer, elapsed, FALSE)

handleSubmit(c, w, useKeypad, elapsed) ==
  IF c.question = Null \/ c.answered
    THEN w
    ELSE LET cleaned == sanitizeNumericInput(Trim(c.answer), allowNegativeAnswer(c))
             parsed == parseNumericInput(cleaned)
         IN IF parsed.error # "none"
              THEN [w EXCEPT !.error = SubmitError(parsed.error, useKeypad)]
              ELSE applyResult(c, clearAdvanceTimer(w),
                               parsed.value = c.question.answer, elapsed, FALSE)

handleAnswerChange(c, w, rawValue) ==
  [w EXCEPT !.answer = sanitizeNumericInput(rawValue, allowNegativeAnswer(c)),
            !.error = NoError]

handleKeypadPress(c, w, key) ==
  IF c.answered
    THEN w
    ELSE LET w1 == [w EXCEPT !.error = NoError]
         IN CASE key = "CLR" -> [w1 EXCEPT !.answer = <<>>]
              [] key = "DEL" ->
                   [w1 EXCEPT !.answer = IF @ = <<>> THEN <<>>
                                         ELSE SubSeq(@, 1, Len(@) - 1)]
              [] key = "-" ->
                   IF ~allowNegativeAnswer(c)
                     THEN w1
                     ELSE [w1 EXCEPT !.answer = IF @ # <<>> /\ Head(@) = "-" THEN Tail(@)
                                               ELSE <<"-">> \o @]
              [] OTHER ->
                   [w1 EXCEPT !.answer = IF @ = <<"0">> THEN <<key>>
                                         ELSE IF @ = <<"-", "0">> THEN <<"-", key>>
                                         ELSE Append(@, key)]

\* slip: the summary comes one question early
SessionOver_AtCount(nextIndex, questionCount) == nextIndex >= questionCount

\* nextIndex > settings.questionCount
SessionOver(nextIndex, questionCount) == nextIndex > questionCount

\* slip: the next index is counted from the latest index, not from the one
\* of the render
handleNext_FromLatest(c, w, draw) ==
  IF c.question = Null \/ ~c.answered
    THEN w
    ELSE LET w1 == clearAdvanceTimer(w)
             nextIndex == w.questionIndex + 1
         IN IF SessionOver(nextIndex, settings.questionCount)
              THEN [w1 EXCEPT !.screen = "summary", !.question = Null,
                              !.answered = FALSE, !.completions = @ + 1]
              ELSE beginQuestion([w1 EXCEPT !.questionIndex = nextIndex],
                                 createQuestion(w1.mode, w1, draw))

handleNext(c, w, draw) ==
  IF c.question = Null \/ ~c.answered
    THEN w
    ELSE LET w1 == clearAdvanceTimer(w)
             nextIndex == c.questionIndex + 1
         IN IF SessionOver(nextIndex, settings.questionCount)
              THEN [w1 EXCEPT !.screen = "summary", !.question = Null,
                              !.answered = FALSE, !.completions = @ + 1]
              ELSE beginQuestion([w1 EXCEPT !.questionIndex = nextIndex],
                                 createQuestion(w1.mode, w1, draw))

handleTimeout(c, w, elapsed) ==
  IF c.question = Null \/ c.answered
    THEN w
    ELSE applyResult(c, w, FALSE, elapsed, TRUE)

\* the updater given to setTimeLeft when prev <= 1; the countdown runs for a
\* question only, so c.question is one
ZeroUpdater(c, w, elapsed) ==
  [handleTimeout(c, w, elapsed) EXCEPT !.timeLeft = 0,
                                        !.ledger[c.question.id].timeouts = @ + 1]

\* the countdown effect: an interval runs exactly for a live, unanswered
\* question on the drill screen
CountdownRuns(w) == w.screen = "drill" /\ w.question # Null /\ ~w.answered

\* slip: only a timeout moves on by itself
AdvanceArmed_TimedOutOnly(fb) == fb # Null /\ fb.timedOut

\* slip: every result moves on by itself
AdvanceArmed_Always(fb) == fb # Null

\* slip: only a correct answer moves on by itself
AdvanceArmed_CorrectOnly(fb) == fb # Null /\ fb.correct

\* the auto-advance effect's early return
AdvanceArmed(fb) == fb # Null /\ (fb.correct \/ fb.timedOut)

\* the auto-advance effect at a render: when feedback or handleNext changed,
\* its cleanup clears the timer and its body arms it again or returns early
AdvanceEffect(c, w) ==
  IF \/ w.fresh
     \/ <<w.feedback, w.answered, w.question, w.questionIndex>>
          # <<c.feedback, c.answered, c.question, c.questionIndex>>
    THEN IF AdvanceArmed(w.feedback) THEN "pending" ELSE "null"
    ELSE w.advanceTimer

\* the setters' values and the refs after a step
Put(w) ==
  /\ screen' = w.screen
  /\ question' = w.question
  /\ answer' = w.answer
  /\ feedback' = w.feedback
  /\ error' = w.error
  /\ session' = w.session
  /\ questionIndex' = w.questionIndex
  /\ timeLeft' = w.timeLeft
  /\ answered' = w.answered
  /\ stats' = w.stats
  /\ mode' = w.mode
  /\ nextId' = w.nextId
  /\ ledger' = w.ledger
  /\ completions' = w.completions

\* React renders w and runs the effects; c is what the render before showed
Commit(c, w) ==
  /\ Put(w)
  /\ interval' = CountdownRuns(w)
  /\ advanceTimer' = AdvanceEffect(c, w)
  /\ stale' = Null

\* the useState values in w
ViewOf(w) ==
  [screen |-> w.screen, question |-> w.question, answer |-> w.answer,
   feedback |-> w.feedback, error |-> w.error, session |-> w.session,
   questionIndex |-> w.questionIndex, timeLeft |-> w.timeLeft, answered |-> w.answered]

\* a zero updater still queued runs in the render of its update, with the
\* handleTimeout of the render that armed the interval
Settled(w, late) ==
  IF stale # Null /\ stale.updater THEN ZeroUpdater(stale.armed, w, late) ELSE w

\* the page dispatched a handler that left w: React renders its updates at
\* once.  That render does not run a zero updater still queued: it stays
\* queued for the render of its own update
Dispatched(w) ==
  IF stale # Null /\ stale.updater
    THEN /\ Put(w)
         /\ interval' = CountdownRuns(w)
         /\ advanceTimer' = AdvanceEffect(Closure, w)
         /\ stale' = [seen |-> ViewOf(w), fresh |-> FALSE, updater |-> TRUE,
                      armed |-> stale.armed]
    ELSE Commit(Closure, w)

\* the updates of a timer callback wait for their render
Deferred(w, updater) ==
  /\ Put(w)
  /\ interval' = FALSE
  /\ advanceTimer' = w.advanceTimer
  /\ stale' = [seen |-> Closure, fresh |-> w.fresh, updater |-> updater,
               armed |-> Closure]

\* startSession(nextMode) for one of modes, from any state: the page calls it
\* from a menu item and from "again" on the summary, a caller of the hook
\* from anywhere; limit bounds the questions drawn
StartSessionFor(limit, modes) ==
  /\ nextId <= limit
  /\ \E nextMode \in modes, draw \in Draws :
       Dispatched(startSession(World, nextMode, draw))

StartSession == StartSessionFor(MaxQuestions, MenuModes)

\* goToMenu() from any state: the page calls it from the back buttons and
\* the popstate listener
GoToMenu == Dispatched(goToMenu(World))

\* setScreen("stats") and setScreen("settings") on the menu
OpenScreen ==
  /\ Closure.screen = "menu"
  /\ \E scr \in {"stats", "settings"} : Dispatched([World EXCEPT !.screen = scr])

\* the texts typed into the answer field
TypedTexts(q) == {formatExpected(q), <<"7">>}

\* the answer field is there for a question and disabled once it is answered
TypeAnswerFrom(texts) ==
  /\ Closure.screen = "drill" /\ Closure.question # Null /\ ~Closure.answered
  /\ \E rawValue \in texts : Dispatched(handleAnswerChange(Closure, World, rawValue))

TypeAnswer == TypeAnswerFrom(TypedTexts(Closure.question))

\* handleSubmit(), from the Check button and the Enter key, or
\* handleSubmit(true) from the keypad's OK key
HandleSubmitFrom(keypads) ==
  /\ \E useKeypad \in keypads, elapsed \in SubmitElapsedMs :
       Dispatched(handleSubmit(Closure, World, useKeypad, elapsed))

HandleSubmit == HandleSubmitFrom({FALSE})

HandleNextWithin(limit) ==
  \E draw \in Draws :
    LET w == handleNext(Closure, World, draw)
    IN w.nextId <= limit + 1 /\ Dispatched(w)

HandleNext == HandleNextWithin(MaxQuestions)

\* the 700 ms timeout of the auto-advance effect fires
AdvanceTimerFiresWithin(limit) ==
  /\ advanceTimer = "pending"
  /\ stale = Null
  /\ \E draw \in Draws :
       LET w0 == [World EXCEPT !.advanceTimer = "fired"]
           w == handleNext(Closure, w0, draw)
       IN /\ w.nextId <= limit + 1
          /\ IF w = w0
               THEN Put(w) /\ advanceTimer' = "fired" /\ UNCHANGED <<interval, stale>>
               ELSE Deferred(w, FALSE)

AdvanceTimerFires == AdvanceTimerFiresWithin(MaxQuestions)

\* slip: the countdown runs one tick longer
CountdownOver_AtZero(prev) == prev <= 0

\* prev <= 1 in the updater given to setTimeLeft
CountdownOver(prev) == prev <= 1

\* one tick of the countdown effect's interval.  At zero React runs the
\* updater, and handleTimeout in it, either at once or in the render of this
\* update
Tick ==
  /\ interval
  /\ stale = Null
  /\ IF ~CountdownOver(timeLeft)
       THEN Commit(Closure, [World EXCEPT !.timeLeft = @ - 1])
       ELSE LET w == [World EXCEPT !.ledger[question.id].zeros = @ + 1]
            IN \/ \E elapsed \in TimeoutElapsedMs :
                    Deferred(ZeroUpdater(Closure, w, elapsed), FALSE)
               \/ Deferred(w, TRUE)

\* the render React scheduled for the updates of a timer callback
Render ==
  /\ stale # Null
  /\ \E late \in TimeoutElapsedMs : Commit(stale.seen, Settled(World, late))

SessionInit ==
  /\ \E saved \in SavedSettings :
       HookInit(normalizeSettings(MergeSettings(DEFAULT_SETTINGS, saved), settingControls),
                "mix")
  /\ stats = createDefaultStats
  /\ call = NoCall
  /\ EngineInit

SessionNext ==
  \/ StartSession /\ UNCHANGED <<settings, call, engineVars>>
  \/ GoToMenu /\ UNCHANGED <<settings, call, engineVars>>
  \/ OpenScreen /\ UNCHANGED <<settings, call, engineVars>>
  \/ TypeAnswer /\ UNCHANGED <<settings, call, engineVars>>
  \/ HandleSubmit /\ UNCHANGED <<settings, call, engineVars>>
  \/ HandleNext /\ UNCHANGED <<settings, call, engineVars>>
  \/ AdvanceTimerFires /\ UNCHANGED <<settings, call, engineVars>>
  \/ Tick /\ UNCHANGED <<settings, call, engineVars>>
  \/ Render /\ UNCHANGED <<settings, call, engineVars>>

Spec == SessionInit /\ [][SessionNext]_vars

\* a timeout the hook armed fires, and React runs the render it scheduled
TimerFired == AdvanceTimerFires /\ UNCHANGED <<settings, call, engineVars>>
Rendered == Render /\ UNCHANGED <<settings, call, engineVars>>


\* while the render of a timer callback's own updates waits, no timer of the
\* hook is armed; a timer armed by a dispatched render while a zero updater
\* is queued fires after the updater's render, which is due at once
RenderWaitsAlone ==
  stale # Null /\ ~stale.updater => ~interval /\ advanceTimer # "pending"

\* the interval runs exactly for a live, unanswered, rendered question
IntervalMatchesView == stale = Null => (interval <=> CountdownRuns(World))

(***************************************************************************)
(* app/page.tsx: the accuracy of the summary.  A number is an IEEE 754      *)
(* double: a sequence of 53 bits, most significant first and leading bit    *)
(* 1, times a power of two; every operation rounds to nearest, ties to even *)
(***************************************************************************)
\* significand bits of a double
MantissaBits == 53

\* bits of a limb, the unit the significand is multiplied in: a quarter of
\* the significand, so that a limb times 100 is a small integer
LimbBits == MantissaBits \div 4

RECURSIVE TwoTo(_)
TwoTo(n) == IF n = 0 THEN 1 ELSE 2 * TwoTo(n - 1)

\* 2^n modulo t, by squaring
RECURSIVE TwoToMod(_, _)
TwoToMod(n, t) ==
  IF n = 0 THEN 1 % t
  ELSE LET h == TwoToMod(n \div 2, t)
       IN (h * h * (IF n % 2 = 1 THEN 2 ELSE 1)) % t

\* the w bits of n < 2^w
BitsOf(n, w) == [i \in 1..w |-> (n \div TwoTo(w - i)) % 2]

RECURSIVE BitsValue(_)
BitsValue(bits) ==
  IF bits = <<>> THEN 0
  ELSE 2 * BitsValue(SubSeq(bits, 1, Len(bits) - 1)) + bits[Len(bits)]

\* bits without its leading zeros
Significant(bits) ==
  IF \A i \in 1..Len(bits) : bits[i] = 0 THEN <<>>
  ELSE LET first == CHOOSE i \in 1..Len(bits) :
                      bits[i] = 1 /\ \A j \in 1..(i - 1) : bits[j] = 0
       IN SubSeq(bits, first, Len(bits))

\* bits + 1
AddOne(bits) ==
  IF \A i \in 1..Len(bits) : bits[i] = 1
    THEN <<1>> \o [i \in 1..Len(bits) |-> 0]
    ELSE LET last == CHOOSE i \in 1..Len(bits) :
                       bits[i] = 0 /\ \A j \in (i + 1)..Len(bits) : bits[j] = 1
         IN [i \in 1..Len(bits) |-> IF i < last THEN bits[i] ELSE IF i = last THEN 1 ELSE 0]

\* the double of the kept bits times 2^exp, rounded up where roundUp
RoundedDouble(kept, exp, roundUp) ==
  LET bits == IF roundUp THEN AddOne(kept) ELSE kept
  IN IF Len(bits) > MantissaBits
       THEN [bits |-> SubSeq(bits, 1, MantissaBits), exp |-> exp + 1]
       ELSE [bits |-> bits, exp |-> exp]

\* zero digits of r / t after the binary point, for 0 < r < t
RECURSIVE LeadingZeros(_, _)
LeadingZeros(r, t) == IF 2 * r >= t THEN 0 ELSE 1 + LeadingZeros(2 * r, t)

\* what is left of r after n binary digits of r / t: r * 2^n modulo t
DivRem(r, t, n) == (r * TwoToMod(n, t)) % t

\* the first n binary digits of r / t, for r < t
DivBits(r, t, n) == [i \in 1..n |-> IF 2 * DivRem(r, t, i - 1) >= t THEN 1 ELSE 0]

\* c / t for integers 0 < c <= t
DoubleDiv(c, t) ==
  IF c = t
    THEN [bits |-> <<1>> \o [i \in 1..(MantissaBits - 1) |-> 0], exp |-> 1 - MantissaBits]
    ELSE LET z == LeadingZeros(c, t)
             r == c * TwoTo(z)
             bits == DivBits(r, t, MantissaBits)
             rem == DivRem(r, t, MantissaBits)
         IN RoundedDouble(bits, 0 - (z + MantissaBits),
                          2 * rem > t \/ (2 * rem = t /\ bits[MantissaBits] = 1))

\* bits in limbs of LimbBits bits, the first one padded with zeros
Limbs(bits) ==
  LET count == (Len(bits) + LimbBits - 1) \div LimbBits
      padded == [i \in 1..(count * LimbBits - Len(bits)) |-> 0] \o bits
  IN [j \in 1..count |->
        BitsValue(SubSeq(padded, (j - 1) * LimbBits + 1, j * LimbBits))]

\* the limbs of (limbs * k + carry), one limb longer
RECURSIVE TimesLimbs(_, _, _)
TimesLimbs(limbs, k, carry) ==
  IF limbs = <<>> THEN <<carry>>
  ELSE LET v == limbs[Len(limbs)] * k + carry
       IN TimesLimbs(SubSeq(limbs, 1, Len(limbs) - 1), k, v \div TwoTo(LimbBits))
            \o <<v % TwoTo(LimbBits)>>

RECURSIVE LimbsToBits(_)
LimbsToBits(limbs) ==
  IF limbs = <<>> THEN <<>>
  ELSE BitsOf(Head(limbs), LimbBits) \o LimbsToBits(Tail(limbs))

\* the bits of bits * k, for a small integer k
TimesSmall(bits, k) == Significant(LimbsToBits(TimesLimbs(Limbs(bits), k, 0)))

\* x * k for a double x > 0 and a small integer k
DoubleTimes(x, k) ==
  LET product == TimesSmall(x.bits, k)
      cut == Len(product) - MantissaBits
      kept == SubSeq(product, 1, MantissaBits)
      dropped == SubSeq(product, MantissaBits + 1, Len(product))
      half == dropped # <<>> /\ dropped[1] = 1
      more == \E i \in 2..Len(dropped) : dropped[i] = 1
  IN RoundedDouble(kept, x.exp + cut, half /\ (more \/ kept[MantissaBits] = 1))

\* Math.round(x) for a double 0 < x < 2^30: the nearest integer, a half
\* rounded up
MathRound(x) ==
  LET whole == MantissaBits + x.exp
  IN IF whole < 0 THEN 0
     ELSE BitsValue(SubSeq(x.bits, 1, whole)) + x.bits[whole + 1]

\* totalAnswered ? Math.round((session.correct / totalAnswered) * 100) : 0
accuracyOf(s) ==
  LET totalAnswered == s.correct + s.wrong
  IN IF totalAnswered = 0 \/ s.correct = 0 THEN 0
     ELSE MathRound(DoubleTimes(DoubleDiv(s.correct, totalAnswered), 100))

(***************************************************************************)
(* LongSpec: one drill of settings.questionCount questions, run from the   *)
(* menu to the summary without leaving it                                  *)
(***************************************************************************)
\* questions drawn in a long drill
LongQuestions == 5

\* the mode of the long drill
LongModes == {"mul"}

\* the menu item's startSession(item.key), and "again" on the summary
StartFromMenu ==
  /\ Closure.screen \in {"menu", "summary"}
  /\ StartSessionFor(LongQuestions, LongModes)

\* the summary's menu button
LeaveSummary == Closure.screen = "summary" /\ GoToMenu

\* a tick of the countdown that leaves time on the clock: the learner of the
\* long drill answers within the time limit
TickDown == timeLeft > 1 /\ Tick

LongNext ==
  \/ StartFromMenu /\ UNCHANGED <<settings, call, engineVars>>
  \/ LeaveSummary /\ UNCHANGED <<settings, call, engineVars>>
  \/ TypeAnswer /\ UNCHANGED <<settings, call, engineVars>>
  \/ HandleSubmit /\ UNCHANGED <<settings, call, engineVars>>
  \/ HandleNextWithin(LongQuestions) /\ UNCHANGED <<settings, call, engineVars>>
  \/ AdvanceTimerFiresWithin(LongQuestions) /\ UNCHANGED <<settings, call, engineVars>>
  \/ TickDown /\ UNCHANGED <<settings, call, engineVars>>
  \/ Render /\ UNCHANGED <<settings, call, engineVars>>

LongSpec == SessionInit /\ [][LongNext]_vars

(***************************************************************************)
(* EntrySpec: answers typed, keyed in and submitted for one question, with *)
(* and without negative answers allowed.  call holds the text last typed   *)
(* into the answer field while the answer is what that text left           *)
(***************************************************************************)
\* questions drawn while answers are entered
EntryQuestions == 1

\* "sub" questions take negative answers under the saved negativeLevel, "add"
\* questions do not
EntryModes == {"add", "sub"}

\* a text of 309 digits that is Infinity as a Number, and one that is finite
AllNines == [i \in 1..Len(INFINITY_FROM) |-> "9"]
OneAndZeros == [i \in 1..Len(INFINITY_FROM) |-> IF i = 1 THEN "1" ELSE "0"]

\* texts typed or pasted into the answer field
EntryTexts(q) ==
  {<<>>, <<" ">>, <<"-">>, <<" ", "-", " ">>, <<"a">>, <<"7">>, <<"-", "7">>,
   formatExpected(q), <<"-">> \o AllNines, OneAndZeros}

\* keys of the keypad
KeypadKeys == {"7", "-", "DEL", "CLR"}

\* the keypad is used on answers of at most this length
MaxKeyed == 1

EntryStart ==
  /\ StartSessionFor(EntryQuestions, EntryModes)
  /\ call' = NoCall

EntryLeave ==
  /\ Closure.screen = "drill"
  /\ GoToMenu
  /\ call' = NoCall

EntryType ==
  /\ Closure.screen = "drill" /\ Closure.question # Null /\ ~Closure.answered
  /\ \E rawValue \in EntryTexts(Closure.question) :
       /\ Dispatched(handleAnswerChange(Closure, World, rawValue))
       /\ call' = [op |-> "handleAnswerChange", rawValue |-> rawValue]

\* the keypad is on the drill screen
KeypadPress ==
  /\ Closure.screen = "drill" /\ Closure.question # Null
  /\ Len(answer) <= MaxKeyed
  /\ \E key \in KeypadKeys : Dispatched(handleKeypadPress(Closure, World, key))
  /\ call' = NoCall

EntrySubmit == HandleSubmitFrom(BOOLEAN) /\ UNCHANGED call

EntryNext ==
  \/ EntryStart /\ UNCHANGED <<settings, engineVars>>
  \/ EntryLeave /\ UNCHANGED <<settings, engineVars>>
  \/ EntryType /\ UNCHANGED <<settings, engineVars>>
  \/ KeypadPress /\ UNCHANGED <<settings, engineVars>>
  \/ EntrySubmit /\ UNCHANGED <<settings, engineVars>>
  \/ Tick /\ UNCHANGED <<settings, call, engineVars>>
  \/ Render /\ UNCHANGED <<settings, call, engineVars>>

EntrySpec == SessionInit /\ [][EntryNext]_vars

(***************************************************************************)
(* SummarySpec: the summary of a drill that was played to its end, each    *)
(* question answered from the keyboard within the time limit               *)
(***************************************************************************)
\* questionCount settings of the drills played
SummaryCounts == {5, 10, 20, 40}

\* the hook's values before any handler ran
FreshWorld(initialSettings, initialMode) ==
  [screen |-> "menu", question |-> Null, answer |-> <<>>, feedback |-> Null,
   error |-> NoError, session |-> [correct |-> 0, wrong |-> 0], questionIndex |-> 1,
   timeLeft |-> initialSettings.timeLimitSeconds, answered |-> FALSE,
   stats |-> createDefaultStats, mode |-> initialMode, advanceTimer |-> "null",
   nextId |-> 1, ledger |-> <<>>, completions |-> 0, fresh |-> FALSE]

\* w once React has rendered it and run the effects; c is what the render
\* before showed
AfterRender(c, w) == [w EXCEPT !.advanceTimer = AdvanceEffect(c, w), !.fresh = FALSE]

PlayedDraw == CHOOSE draw \in Draws : draw.roll = 0

\* the one element of a set of one
TheOne(S) == CHOOSE x \in S : TRUE

\* the learner types an answer, submits it and presses Next, each handler
\* rendered before the next one
AnswerOne(w, correct) ==
  LET typed == IF correct THEN formatExpected(w.question) ELSE <<"7">>
  IN TheOne({ AfterRender(ViewOf(w2), handleNext(ViewOf(w2), w2, PlayedDraw)) :
                w2 \in { AfterRender(ViewOf(w1), handleSubmit(ViewOf(w1), w1, FALSE, 2400)) :
                           w1 \in { AfterRender(ViewOf(w),
                                                handleAnswerChange(ViewOf(w), w, typed)) } } })

\* questions lo..hi answered, those up to question hits correctly (the first
\* half of the range, then the rest)
RECURSIVE PlayRange(_, _, _, _)
PlayRange(w, lo, hi, hits) ==
  IF lo > hi THEN w
  ELSE IF lo = hi THEN AnswerOne(w, lo <= hits)
  ELSE LET mid == (lo + hi) \div 2
       IN TheOne({ PlayRange(half, mid + 1, hi, hits) :
                     half \in {PlayRange(w, lo, mid, hits)} })

\* startSession(nextMode) on the menu and the whole drill played
PlayedDrill(initialSettings, nextMode, hits) ==
  TheOne({ PlayRange(w1, 1, initialSettings.questionCount, hits) :
             w1 \in { AfterRender(ViewOf(w0), startSession(w0, nextMode, PlayedDraw)) :
                        w0 \in {FreshWorld(initialSettings, "mix")} } })

\* the state variables hold w, rendered, with no timer callback waiting
Holds(w) ==
  /\ screen = w.screen
  /\ question = w.question
  /\ answer = w.answer
  /\ feedback = w.feedback
  /\ error = w.error
  /\ session = w.session
  /\ questionIndex = w.questionIndex
  /\ timeLeft = w.timeLeft
  /\ answered = w.answered
  /\ stats = w.stats
  /\ mode = w.mode
  /\ nextId = w.nextId
  /\ ledger = w.ledger
  /\ completions = w.completions
  /\ advanceTimer = w.advanceTimer
  /\ interval = CountdownRuns(w)
  /\ stale = Null

SummaryInit ==
  /\ \E count \in SummaryCounts :
       /\ settings = [DEFAULT_SETTINGS EXCEPT !.questionCount = count]
       /\ \E hits \in 0..count :
            \E w \in {PlayedDrill(settings, "mul", hits)} : Holds(w)
  /\ call = NoCall
  /\ EngineInit

\* the back button of the stats and settings screens
BackToMenu == Closure.screen \in {"stats", "settings"} /\ GoToMenu

\* the auto-advance timer armed for the last feedback fires on the summary
SummaryTimerFires == AdvanceTimerFiresWithin(nextId)

SummaryNext ==
  \/ LeaveSummary /\ UNCHANGED <<settings, call, engineVars>>
  \/ OpenScreen /\ UNCHANGED <<settings, call, engineVars>>
  \/ BackToMenu /\ UNCHANGED <<settings, call, engineVars>>
  \/ SummaryTimerFires /\ UNCHANGED <<settings, call, engineVars>>

SummarySpec == SummaryInit /\ [][SummaryNext]_vars

(***************************************************************************)
(* HistorySpec: one skill answered again and again, every result logged    *)
(***************************************************************************)
\* results recorded for the drilled skill
MaxLogged == 13

HistorySkill == "mul"

HistoryResults == {[correct |-> TRUE, ms |-> 2400], [correct |-> FALSE, ms |-> 5701]}

HistoryInit ==
  /\ stats = createDefaultStats
  /\ call = NoCall
  /\ EngineInit
  /\ HookInit(DEFAULT_SETTINGS, "mix")

RecordResult(skill, correct, ms) ==
  /\ calls < MaxLogged
  /\ stats' = updateStats(stats, skill, correct, ms)
  /\ call' = [op |-> "updateStats", skill |-> skill, correct |-> correct, ms |-> ms]
  /\ calls' = calls + 1
  /\ log' = [log EXCEPT ![skill] = Append(@, [correct |-> correct, ms |-> ms])]
  /\ UNCHANGED <<demoted, hookVars>>

HistoryNext == \E r \in HistoryResults : RecordResult(HistorySkill, r.correct, r.ms)

HistorySpec == HistoryInit /\ [][HistoryNext]_vars

(***************************************************************************)
(* Claims on the leveling engine (StatsSpec, HistorySpec)                  *)
(***************************************************************************)

\* C1: from the default stats, after any sequence of updateStats calls, every
\* skill's level lies in [1, MAX_LEVEL] = [1, 50].
C1_LevelInRange == \A skill \in Skills : stats[skill].level >= 1 /\ stats[skill].level <= 50

\* a promotion threshold met at the top level
C1_Witness ==
  /\ Updated
  /\ Before.level = 50
  /\ call.correct /\ Before.streak + 1 >= 3 /\ call.ms <= getTargetMs(Before.level)

\* C3: updateStats raises the answered skill's level by exactly 1 if and only
\* if the result is correct, the streak counting this answer is at least 3,
\* the elapsed time is at most the target time of the level before the update
\* and that level is below the maximum; the level never rises otherwise, nor
\* by more than 1.
C3_PromotionIff ==
  Updated =>
    /\ (After.level = Before.level + 1) <=>
         (/\ call.correct
          /\ Before.streak + 1 >= 3
          /\ call.ms <= getTargetMs(Before.level)
          /\ Before.level < 50)
    /\ After.level <= Before.level + 1

\* a promotion by an answer given exactly in the target time
C3_Witness ==
  /\ Updated
  /\ After.level = Before.level + 1
  /\ call.ms = getTargetMs(Before.level)

\* C4 as stated: whenever the promotion threshold is met, the streak of the
\* returned stats is 0, at every level from 1 to MAX_LEVEL.
C4_Original ==
  (Updated /\ call.correct /\ Before.streak + 1 >= 3
           /\ call.ms <= getTargetMs(Before.level))
    => After.streak = 0

\* C4 amended: when the promotion threshold is met below MAX_LEVEL the level
\* rises and the streak of the returned stats is 0; at MAX_LEVEL the level
\* stays and the streak is the streak counting this answer.
C4_StreakResetOnLevelUp ==
  (Updated /\ call.correct /\ Before.streak + 1 >= 3
           /\ call.ms <= getTargetMs(Before.level))
    => IF Before.level < 50
         THEN After.streak = 0
         ELSE After.level = 50 /\ After.streak = Before.streak + 1

\* a promotion from a streak that had already passed 3
C4_Witness ==
  /\ Updated
  /\ call.correct /\ Before.streak >= 3 /\ call.ms <= getTargetMs(Before.level)
  /\ Before.level < 50
  /\ After.streak = 0

\* C5 as stated: whenever a result is incorrect and the mistake streak counting
\* it is at least 2, the level is lowered by 1 (not below 1) and mistakeStreak
\* is 0, at every level from 1 to MAX_LEVEL.
C5_Original ==
  (Updated /\ ~call.correct /\ Before.mistakeStreak + 1 >= 2)
    => /\ After.level = Max2(Before.level - 1, 1)
       /\ After.mistakeStreak = 0

\* C5 amended: in that case the level is lowered by 1 (not below 1);
\* mistakeStreak is 0 when the level was above 1, and at level 1 it is the
\* mistake streak counting this answer.
C5_DemotionResetsAboveOne ==
  (Updated /\ ~call.correct /\ Before.mistakeStreak + 1 >= 2)
    => /\ After.level = Max2(Before.level - 1, 1)
       /\ After.mistakeStreak = IF Before.level > 1 THEN 0 ELSE Before.mistakeStreak + 1

\* a second miss in a row above level 1
C5_Witness ==
  /\ Updated
  /\ ~call.correct /\ Before.mistakeStreak + 1 >= 2
  /\ Before.level > 1
  /\ After.level = Before.level - 1

\* C6 as stated: a correct answer slower than the target time of the current
\* level leaves the level alone and resets the streak.
C6_Original ==
  (Updated /\ call.correct /\ call.ms > getTargetMs(Before.level))
    => /\ After.level = Before.level
       /\ After.streak = 0

\* C6 amended: a correct answer slower than the target time of the current
\* level leaves the level alone, adds 1 to the streak and resets mistakeStreak.
C6_SlowCorrectKeepsLevel ==
  (Updated /\ call.correct /\ call.ms > getTargetMs(Before.level))
    => /\ After.level = Before.level
       /\ After.streak = Before.streak + 1
       /\ After.mistakeStreak = 0

\* a slow correct answer that is the third correct one in a row
C6_Witness ==
  /\ Updated
  /\ call.correct /\ call.ms > getTargetMs(Before.level)
  /\ Before.streak = 2
  /\ After.streak = 3

\* C7: from the default stats, a level is lowered only by an incorrect result
\* whose skill's previous result was incorrect too and did not itself lower
\* the level; a first result, a miss after a correct answer and a miss after
\* a demotion never lower it.
C7_DemotionNeedsTwoMisses ==
  (Updated /\ After.level < Before.level)
    => /\ ~call.correct
       /\ Len(Before.history) > 0
       /\ ~Before.history[Len(Before.history)].correct
       /\ ~call.afterDemotion

\* a miss right after a demotion, the level still above 1
C7_Witness ==
  /\ Updated
  /\ ~call.correct
  /\ call.afterDemotion
  /\ Before.level > 1
  /\ After.level = Before.level

\* C8: a skill's history is the most recent min(n, 12) of the n results
\* recorded for it, oldest first.
C8_HistoryIsLastTwelve ==
  \A skill \in Skills :
    LET h == stats[skill].history
        l == log[skill]
    IN /\ Len(h) = Min2(Len(l), 12)
       /\ \A i \in 1..Len(h) : h[i] = l[Len(l) - Len(h) + i]

\* the 13th result has arrived and the dropped one differs from the one
\* that is now the oldest
C8_Witness ==
  /\ Updated
  /\ Len(log[HistorySkill]) = 13
  /\ log[HistorySkill][1] # stats[HistorySkill].history[1]

(***************************************************************************)
(* The advance: a drill in one mode, with the Next button pressed and the   *)
(* auto-advance timer firing in any order with the renders                  *)
(***************************************************************************)
\* questions drawn in the drill of the advance
AdvanceQuestions == 3

AdvanceModes == {"add"}

AdvanceStart == StartSessionFor(AdvanceQuestions, AdvanceModes)

\* the Next button of the feedback
NextPressed == HandleNextWithin(AdvanceQuestions)

\* the 700 ms timeout fires
AdvanceFired == AdvanceTimerFiresWithin(AdvanceQuestions)

AdvanceNext ==
  \/ AdvanceStart /\ UNCHANGED <<settings, call, engineVars>>
  \/ GoToMenu /\ UNCHANGED <<settings, call, engineVars>>
  \/ TypeAnswer /\ UNCHANGED <<settings, call, engineVars>>
  \/ HandleSubmit /\ UNCHANGED <<settings, call, engineVars>>
  \/ NextPressed /\ UNCHANGED <<settings, call, engineVars>>
  \/ AdvanceFired /\ UNCHANGED <<settings, call, engineVars>>
  \/ Tick /\ UNCHANGED <<settings, call, engineVars>>
  \/ Render /\ UNCHANGED <<settings, call, engineVars>>

AdvanceSpec == SessionInit /\ [][AdvanceNext]_vars

(***************************************************************************)
(* The countdown: call counts the ticks of the interval since the question  *)
(* on the page began                                                        *)
(***************************************************************************)
\* questions drawn in the drill of the countdown
CountdownQuestions == 2

CountdownModes == {"add"}

\* timeLimitSeconds of the persisted settings: below the minimum and within
\* the bounds
SavedLimits == {0, 6}

NoTicks == [op |-> "tick", n |-> 0]

\* a step that put another question on the page starts the count again
Counted == call' = IF question' # question THEN NoTicks ELSE call

CountdownInit ==
  /\ \E limit \in SavedLimits :
       HookInit(normalizeSettings(MergeSettings(DEFAULT_SETTINGS,
                                                [timeLimitSeconds |-> limit]),
                                  settingControls),
                "mix")
  /\ stats = createDefaultStats
  /\ call = NoCall
  /\ EngineInit

CountdownStart == StartSessionFor(CountdownQuestions, CountdownModes) /\ Counted

CountdownTick == Tick /\ call' = [call EXCEPT !.n = @ + 1]

CountdownAdvance ==
  /\ HandleNextWithin(CountdownQuestions) \/ AdvanceTimerFiresWithin(CountdownQuestions)
  /\ Counted

CountdownNext ==
  \/ CountdownStart /\ UNCHANGED <<settings, engineVars>>
  \/ CountdownTick /\ UNCHANGED <<settings, engineVars>>
  \/ CountdownAdvance /\ UNCHANGED <<settings, engineVars>>
  \/ GoToMenu /\ UNCHANGED <<settings, call, engineVars>>
  \/ TypeAnswer /\ UNCHANGED <<settings, call, engineVars>>
  \/ HandleSubmit /\ UNCHANGED <<settings, call, engineVars>>
  \/ Render /\ UNCHANGED <<settings, call, engineVars>>

CountdownSpec == CountdownInit /\ [][CountdownNext]_vars

(***************************************************************************)
(* The settings: loaded from the persisted blob and changed by the steppers *)
(* of the settings screen; call keeps the blob that was loaded              *)
(***************************************************************************)
\* adjustSetting calls explored
MaxAdjusts == 3

\* values of the fields of the persisted blob: below, at and above the
\* bounds of their controls
SavedValues ==
  [questionCount |-> {0, 5, 49, 50, 99},
   timeLimitSeconds |-> {0, 5, 7, 58, 60, 99},
   negativeLevel |-> {-1, 0, MAX_LEVEL, MAX_LEVEL + 1}]

\* the persisted blobs: every field is optional
SavedBlobs ==
  UNION { { blob \in [present -> UNION {SavedValues[f] : f \in ControlIds}] :
              \A f \in present : blob[f] \in SavedValues[f] } :
          present \in SUBSET ControlIds }

\* the ids the steppers pass, and one no control has
AdjustedIds == ControlIds \cup {"theme"}

\* adjustSetting(controlId, delta): the updater given to setSettings
adjustSetting(prev, controlId, delta) ==
  LET found == SelectSeq(settingControls, LAMBDA item : item.id = controlId)
  IN IF found = <<>>
       THEN prev
       ELSE LET control == found[1]
                current == ControlGetValue(control, prev)
                nextValue == Min2(Max2(current + control.step * delta, control.min),
                                  control.max)
            IN ControlSetValue(control, prev, nextValue)

SettingsInit ==
  /\ \E saved \in SavedBlobs :
       /\ HookInit(normalizeSettings(MergeSettings(DEFAULT_SETTINGS, saved),
                                     settingControls),
                   "mix")
       /\ call = [op |-> "load", saved |-> saved]
  /\ stats = createDefaultStats
  /\ EngineInit

AdjustSetting ==
  /\ calls < MaxAdjusts
  /\ \E controlId \in AdjustedIds, delta \in {-1, 1} :
       settings' = adjustSetting(settings, controlId, delta)
  /\ calls' = calls + 1
  /\ Dispatched(World)
  /\ UNCHANGED <<stats, call, demoted, log>>

SettingsNext ==
  \/ AdjustSetting
  \/ OpenScreen /\ UNCHANGED <<settings, call, engineVars>>
  \/ GoToMenu /\ UNCHANGED <<settings, call, engineVars>>

SettingsSpec == SettingsInit /\ [][SettingsNext]_vars

(***************************************************************************)
(* native/App.tsx: the settings of the native app.  call.saved is the blob  *)
(* in AsyncStorage and call.op tells whether the load effect has read it    *)
(***************************************************************************)
\* the settings blobs in AsyncStorage: a blob of numbers, or none
NativeBlobs == SavedBlobs

\* the updater the load effect gives to setSettings
nativeLoadSettings(prev, parsed) ==
  LET field(f) == IF f \in DOMAIN parsed THEN parsed[f] ELSE prev[f]
  IN [questionCount |-> field("questionCount"),
      timeLimitSeconds |-> field("timeLimitSeconds"),
      negativeLevel |-> Min2(Max2(field("negativeLevel"), 0), MAX_LEVEL)]

adjustQuestionCount(prev, delta) ==
  [prev EXCEPT !.questionCount = Min2(Max2(@ + delta, 5), 50)]

adjustTimeLimit(prev, delta) ==
  [prev EXCEPT !.timeLimitSeconds = Min2(Max2(@ + delta, 5), 60)]

adjustNegativeLevel(prev, delta) ==
  [prev EXCEPT !.negativeLevel = Min2(Max2(@ + delta, 0), MAX_LEVEL)]

\* the useState initial values of the app, with some blob in storage
NativeInit ==
  /\ HookInit(DEFAULT_SETTINGS, "mix")
  /\ \E saved \in NativeBlobs : call = [op |-> "loading", saved |-> saved]
  /\ stats = createDefaultStats
  /\ EngineInit

\* the load effect reads the settings blob
NativeLoad ==
  /\ call.op = "loading"
  /\ settings' = nativeLoadSettings(settings, call.saved)
  /\ timeLeft' = IF "timeLimitSeconds" \in DOMAIN call.saved
                   THEN call.saved.timeLimitSeconds ELSE timeLeft
  /\ call' = [call EXCEPT !.op = "ready"]
  /\ UNCHANGED <<stats, engineVars, mode, screen, question, answer, feedback, error,
                 session, questionIndex, answered, advanceTimer, interval, stale,
                 nextId, ledger, completions>>

\* the steppers of the settings screen
NativeAdjust ==
  /\ calls < MaxAdjusts
  /\ \/ \E delta \in {-1, 1} : settings' = adjustQuestionCount(settings, delta)
     \/ \E delta \in {-5, 5} : settings' = adjustTimeLimit(settings, delta)
     \/ \E delta \in {-1, 1} : settings' = adjustNegativeLevel(settings, delta)
  /\ calls' = calls + 1
  /\ UNCHANGED <<stats, call, demoted, log, mode, screen, question, answer, feedback,
                 error, session, questionIndex, timeLeft, answered, advanceTimer,
                 interval, stale, nextId, ledger, completions>>

NativeNext == NativeLoad \/ NativeAdjust

NativeSpec == NativeInit /\ [][NativeNext]_vars

(***************************************************************************)
(* JSON: a text is a sequence of tokens, a token a punctuation mark, a      *)
(* string, a number in decimal digits or one of true, false and null        *)
(***************************************************************************)
Punct(mark) == [k |-> "punct", v |-> mark]

IsPunct(token, mark) == token.k = "punct" /\ token.v = mark

\* items joined by commas
RECURSIVE Joined(_)
Joined(items) ==
  IF items = <<>> THEN <<>>
  ELSE IF Len(items) = 1 THEN items[1]
  ELSE items[1] \o <<Punct(",")>> \o Joined(Tail(items))

\* JSON.stringify of an integer, a boolean and a string
JsonNumber(n) ==
  << [k |-> "number", v |-> IF n < 0 THEN <<"-">> \o NatToText(0 - n) ELSE NatToText(n)] >>

JsonBoolean(b) == << [k |-> "literal", v |-> IF b THEN "true" ELSE "false"] >>

JsonString(s) == << [k |-> "string", v |-> s] >>

\* JSON.stringify of an array, from the texts of its elements
JsonArray(items) == <<Punct("[")>> \o Joined(items) \o <<Punct("]")>>

\* JSON.stringify of an object, from its keys in insertion order and the
\* texts of their values
JsonObject(keys, texts) ==
  <<Punct("{")>>
    \o Joined([i \in 1..Len(keys) |-> JsonString(keys[i]) \o <<Punct(":")>> \o texts[i]])
    \o <<Punct("}")>>

\* the number a number token stands for
TokenNumber(digits) ==
  IF Head(digits) = "-" THEN 0 - DigitsValue(Tail(digits)) ELSE DigitsValue(digits)

\* the object of a sequence of members, a later member replacing an earlier
\* one of the same key
ObjectOf(members) ==
  [key \in {members[j].key : j \in 1..Len(members)} |->
     members[CHOOSE j \in 1..Len(members) :
               /\ members[j].key = key
               /\ \A later \in (j + 1)..Len(members) : members[later].key # key].val]

SyntaxError == [ok |-> FALSE, v |-> Null, next |-> 0]

ParsedValue(value, next) == [ok |-> TRUE, v |-> value, next |-> next]

\* the value that starts at token i of text, and the token after it
RECURSIVE ParseValue(_, _)
RECURSIVE ParseElements(_, _, _)
RECURSIVE ParseMembers(_, _, _)
ParseValue(text, i) ==
  IF i > Len(text) THEN SyntaxError
  ELSE LET token == text[i]
       IN CASE token.k = "number" -> ParsedValue(TokenNumber(token.v), i + 1)
            [] token.k = "string" -> ParsedValue(token.v, i + 1)
            [] token.k = "literal" ->
                 ParsedValue(IF token.v = "true" THEN TRUE
                         ELSE IF token.v = "false" THEN FALSE ELSE Null, i + 1)
            [] IsPunct(token, "[") ->
                 IF i < Len(text) /\ IsPunct(text[i + 1], "]")
                   THEN ParsedValue(<<>>, i + 2)
                   ELSE ParseElements(text, i + 1, <<>>)
            [] IsPunct(token, "{") ->
                 IF i < Len(text) /\ IsPunct(text[i + 1], "}")
                   THEN ParsedValue(ObjectOf(<<>>), i + 2)
                   ELSE ParseMembers(text, i + 1, <<>>)
            [] OTHER -> SyntaxError

ParseElements(text, i, seen) ==
  TheOne({ IF ~r.ok \/ r.next > Len(text) THEN SyntaxError
           ELSE IF IsPunct(text[r.next], ",")
                  THEN ParseElements(text, r.next + 1, Append(seen, r.v))
           ELSE IF IsPunct(text[r.next], "]")
                  THEN ParsedValue(Append(seen, r.v), r.next + 1)
           ELSE SyntaxError :
           r \in {ParseValue(text, i)} })

ParseMembers(text, i, seen) ==
  IF i + 1 > Len(text) \/ text[i].k # "string" \/ ~IsPunct(text[i + 1], ":")
    THEN SyntaxError
    ELSE TheOne({ IF ~r.ok \/ r.next > Len(text) THEN SyntaxError
                  ELSE LET members == Append(seen, [key |-> text[i].v, val |-> r.v])
                       IN IF IsPunct(text[r.next], ",")
                            THEN ParseMembers(text, r.next + 1, members)
                          ELSE IF IsPunct(text[r.next], "}")
                            THEN ParsedValue(ObjectOf(members), r.next + 1)
                          ELSE SyntaxError :
                  r \in {ParseValue(text, i + 2)} })

\* JSON.parse(text), with ok false where it throws a SyntaxError
JsonParse(text) ==
  TheOne({ IF r.ok /\ r.next = Len(text) + 1 THEN r ELSE SyntaxError :
           r \in {ParseValue(text, 1)} })

\* JSON.stringify of a Result, a SkillStats, the stats, { stats, mode } and
\* the settings
JsonResult(result) ==
  JsonObject(<<"correct", "ms">>, <<JsonBoolean(result.correct), JsonNumber(result.ms)>>)

JsonSkillStats(skillStats) ==
  JsonObject(<<"level", "streak", "mistakeStreak", "history">>,
             << JsonNumber(skillStats.level), JsonNumber(skillStats.streak),
                JsonNumber(skillStats.mistakeStreak),
                JsonArray([i \in 1..Len(skillStats.history) |->
                             JsonResult(skillStats.history[i])]) >>)

JsonStats(allStats) ==
  JsonObject(SKILL_LIST, [i \in 1..Len(SKILL_LIST) |-> JsonSkillStats(allStats[SKILL_LIST[i]])])

JsonSession(allStats, selectedMode) ==
  JsonObject(<<"stats", "mode">>, <<JsonStats(allStats), JsonString(selectedMode)>>)

JsonSettings(s) ==
  JsonObject(<<"questionCount", "timeLimitSeconds", "negativeLevel">>,
             << JsonNumber(s.questionCount), JsonNumber(s.timeLimitSeconds),
                JsonNumber(s.negativeLevel) >>)

(***************************************************************************)
(* Persistence: call is window.localStorage as the hook uses it.  The       *)
(* session and settings items are JSON texts, backend tells whether         *)
(* getItem and setItem work or throw, and raised tells that an exception    *)
(* has left an effect                                                       *)
(***************************************************************************)
\* questions drawn while the storage is watched
PersistQuestions == 1

PersistModes == {"add"}

\* presses of a settings button while the storage is watched
PersistAdjusts == 1

\* getItem returns null: no item under the key
NoItem == <<>>

\* a text JSON.parse rejects
Unparseable == <<Punct("{")>>

\* stats as an earlier run left them
PlayedStats == updateStats(createDefaultStats, "add", TRUE, 2400)

\* parseable stats that are not Stats: a level beyond MAX_LEVEL, and a skill
\* missing
LevelBeyond == [PlayedStats EXCEPT !.add.level = MAX_LEVEL + 49]

JsonStatsWithout(allStats, skill) ==
  LET kept == SelectSeq(SKILL_LIST, LAMBDA item : item # skill)
  IN JsonObject(kept, [i \in 1..Len(kept) |-> JsonSkillStats(allStats[kept[i]])])

SessionItems ==
  { NoItem, Unparseable,
    JsonSession(PlayedStats, "sub"),
    JsonSession(LevelBeyond, "sub"),
    JsonObject(<<"stats", "mode">>, <<JsonStatsWithout(PlayedStats, "div"), JsonString("sub")>>) }

SettingsItems ==
  { NoItem, Unparseable,
    JsonSettings([questionCount |-> 20, timeLimitSeconds |-> 5, negativeLevel |-> 3]) }

\* storage.readJSON on an item: null for no item and for a text that
\* JSON.parse rejects
readJSON(raw) ==
  IF raw = NoItem THEN Null
  ELSE TheOne({ IF r.ok THEN r.v ELSE Null : r \in {JsonParse(raw)} })

\* savedSession?.field ?? fallback: the fallback for no blob and for a blob
\* without the field
SavedOr(saved, field, fallback) ==
  IF field \in DOMAIN saved THEN saved[field] ELSE fallback

\* initialState and the useState initial values, from the two items
MountedWorld(items) ==
  LET savedSession == readJSON(items.session)
      savedSettings == readJSON(items.settings)
      normalizedSettings == normalizeSettings(MergeSettings(DEFAULT_SETTINGS, savedSettings),
                                              settingControls)
  IN [world |-> [FreshWorld(normalizedSettings, SavedOr(savedSession, "mode", "mix"))
                   EXCEPT !.stats = SavedOr(savedSession, "stats", createDefaultStats)],
      settings |-> normalizedSettings]

\* the page reads every skill of stats in its first render
PageRenders(w) == Skills \subseteq DOMAIN w.stats

\* React has unmounted the page after an exception in a render or an effect:
\* the hook's values are gone and the unmount effect has cleared the timers
UnmountedWorld ==
  [FreshWorld(DEFAULT_SETTINGS, "mix") EXCEPT !.screen = "unmounted"]

Mounted == screen # "unmounted"

\* slip: the session effect writes the stats without the mode
Written_StatsOnly(store, allStats, selectedMode, s) ==
  [store EXCEPT !.session = JsonObject(<<"stats">>, <<JsonStats(allStats)>>),
                !.settings = JsonSettings(s)]

\* the two persistence effects after a render
Written(store, allStats, selectedMode, s) ==
  [store EXCEPT !.session = JsonSession(allStats, selectedMode),
                !.settings = JsonSettings(s)]

\* the page is loaded with some items in a storage that works or throws
PersistInit ==
  /\ \E sessionItem \in SessionItems, settingsItem \in SettingsItems,
         backend \in {"works", "throws"} :
       LET items == [session |-> sessionItem, settings |-> settingsItem]
           store == [op |-> "storage", backend |-> backend, raised |-> FALSE,
                     session |-> sessionItem, settings |-> settingsItem]
       IN IF backend = "throws"
            THEN Holds(UnmountedWorld) /\ settings = DEFAULT_SETTINGS /\ call = store
            ELSE \E m \in {MountedWorld(items)} :
                   IF PageRenders(m.world)
                     THEN /\ Holds(m.world)
                          /\ settings = m.settings
                          /\ call = Written(store, m.world.stats, m.world.mode, m.settings)
                     ELSE Holds(UnmountedWorld) /\ settings = DEFAULT_SETTINGS /\ call = store
  /\ EngineInit

\* a render happened in the step: the step of a timer callback leaves its
\* updates waiting
RenderedInStep == stale' = Null \/ stale # Null

\* a persistence effect of the step's render has something to write
WriteDue ==
  /\ RenderedInStep
  /\ \/ JsonSession(stats', mode') # call.session
     \/ JsonSettings(settings') # call.settings

\* the effects of the step's render: they write what has changed, and
\* setItem raises from the effect when the storage throws
Persisted ==
  call' = IF ~WriteDue THEN call
          ELSE IF call.backend = "works" THEN Written(call, stats', mode', settings')
          ELSE [call EXCEPT !.raised = TRUE]

\* resetStats()
resetStats(w) == [w EXCEPT !.stats = createDefaultStats]

ResetStats == Dispatched(resetStats(World))

\* the page is mounted and no exception is on its way
OnPage == Mounted /\ ~call.raised

\* the handlers and timers of the mounted page, each with the persistence
\* effects of its render: a session starts from a menu item, the settings
\* buttons and the reset button are on the settings screen
PersistStart ==
  /\ OnPage /\ Closure.screen = "menu"
  /\ StartSessionFor(PersistQuestions, PersistModes)
  /\ UNCHANGED <<settings, engineVars>> /\ Persisted

PersistLeave == OnPage /\ GoToMenu /\ UNCHANGED <<settings, engineVars>> /\ Persisted

PersistOpen == OnPage /\ OpenScreen /\ UNCHANGED <<settings, engineVars>> /\ Persisted

PersistType == OnPage /\ TypeAnswer /\ UNCHANGED <<settings, engineVars>> /\ Persisted

PersistSubmit == OnPage /\ HandleSubmit /\ UNCHANGED <<settings, engineVars>> /\ Persisted

PersistTick == OnPage /\ Tick /\ UNCHANGED <<settings, engineVars>> /\ Persisted

PersistRender == OnPage /\ Render /\ UNCHANGED <<settings, engineVars>> /\ Persisted

PersistReset ==
  /\ OnPage /\ Closure.screen = "settings"
  /\ ResetStats
  /\ UNCHANGED <<settings, engineVars>> /\ Persisted

PersistAdjust ==
  /\ OnPage /\ Closure.screen = "settings"
  /\ calls < PersistAdjusts
  /\ \E controlId \in ControlIds, delta \in {-1, 1} :
       settings' = adjustSetting(settings, controlId, delta)
  /\ calls' = calls + 1
  /\ Dispatched(World)
  /\ UNCHANGED <<demoted, log>>
  /\ Persisted

\* an exception left a persistence effect: React unmounts the page before
\* the next event is handled
WriteThrows ==
  /\ call.raised
  /\ call' = [call EXCEPT !.raised = FALSE]
  /\ Put([UnmountedWorld EXCEPT !.nextId = nextId, !.ledger = ledger,
                                 !.completions = completions])
  /\ interval' = FALSE
  /\ advanceTimer' = "null"
  /\ stale' = Null
  /\ settings' = DEFAULT_SETTINGS
  /\ UNCHANGED engineVars

\* the storage stops working: the quota is used up or the access is denied
BackendBreaks ==
  /\ ~call.raised
  /\ call.backend = "works"
  /\ call' = [call EXCEPT !.backend = "throws"]
  /\ UNCHANGED <<stats, hookVars, engineVars>>

\* the page is loaded again and the hook mounts from the items in storage
Reload ==
  LET items == [session |-> call.session, settings |-> call.settings]
      gone == [UnmountedWorld EXCEPT !.nextId = nextId, !.ledger = ledger,
                                     !.completions = completions]
  IN /\ ~call.raised
     /\ interval' = FALSE
     /\ advanceTimer' = "null"
     /\ stale' = Null
     /\ UNCHANGED engineVars
     /\ IF call.backend = "throws"
          THEN Put(gone) /\ settings' = DEFAULT_SETTINGS /\ call' = call
          ELSE \E m \in {MountedWorld(items)} :
                 IF PageRenders(m.world)
                   THEN /\ Put([m.world EXCEPT !.nextId = nextId, !.ledger = ledger,
                                                !.completions = completions])
                        /\ settings' = m.settings
                        /\ call' = Written(call, m.world.stats, m.world.mode, m.settings)
                   ELSE Put(gone) /\ settings' = DEFAULT_SETTINGS /\ call' = call

PersistNext ==
  \/ PersistStart
  \/ PersistLeave
  \/ PersistOpen
  \/ PersistType
  \/ PersistSubmit
  \/ PersistTick
  \/ PersistRender
  \/ PersistReset
  \/ PersistAdjust
  \/ WriteThrows
  \/ BackendBreaks
  \/ Reload

PersistSpec == PersistInit /\ [][PersistNext]_vars

(***************************************************************************)
(* ScreenSpec: the page's buttons on each screen, through a drill of       *)
(* settings.questionCount questions to the summary and on                  *)
(***************************************************************************)
\* questions drawn while the screens are walked: one drill and one more
ScreenQuestions == 6

ScreenModes == {"mul"}

\* questions whose time may run out: the first ones drawn
ScreenTimeouts == 1

\* startSession(item.key) of a menu item
MenuStart ==
  /\ Closure.screen = "menu"
  /\ StartSessionFor(ScreenQuestions, ScreenModes)

\* startSession(mode) of the summary's "again" button
PracticeAgain ==
  /\ Closure.screen = "summary"
  /\ StartSessionFor(ScreenQuestions, {mode})

\* goToMenu() of the back buttons and the popstate listener
GoBack == Closure.screen # "menu" /\ GoToMenu

\* the learner of this walk types the expected answer or lets the time run out
ScreenType == TypeAnswerFrom({formatExpected(Closure.question)})

\* a tick of the countdown; the time runs out on the first questions only
ScreenTick == (timeLeft > 1 \/ nextId <= ScreenTimeouts + 1) /\ Tick

ScreenNextPressed == HandleNextWithin(ScreenQuestions)

ScreenAdvanceFired == AdvanceTimerFiresWithin(ScreenQuestions)

ScreenNext ==
  \/ MenuStart /\ UNCHANGED <<settings, call, engineVars>>
  \/ PracticeAgain /\ UNCHANGED <<settings, call, engineVars>>
  \/ GoBack /\ UNCHANGED <<settings, call, engineVars>>
  \/ OpenScreen /\ UNCHANGED <<settings, call, engineVars>>
  \/ ScreenType /\ UNCHANGED <<settings, call, engineVars>>
  \/ HandleSubmit /\ UNCHANGED <<settings, call, engineVars>>
  \/ ScreenNextPressed /\ UNCHANGED <<settings, call, engineVars>>
  \/ ScreenAdvanceFired /\ UNCHANGED <<settings, call, engineVars>>
  \/ ScreenTick /\ UNCHANGED <<settings, call, engineVars>>
  \/ Render /\ UNCHANGED <<settings, call, engineVars>>

ScreenSpec == SessionInit /\ [][ScreenNext]_vars

(***************************************************************************)
(* GenerateSpec: generateQuestion for every skill, at levels in and out of *)
(* the table, called without options and from createQuestion under a       *)
(* negativeLevel.  call holds the arguments and the numbers randomInt drew *)
(***************************************************************************)
\* levels asked for: the ends of the base table and of the whole table, and
\* one beyond it
GenerateLevels == {1, 12, 13, MAX_LEVEL, MAX_LEVEL + 1}

\* negativeLevel of the settings: off, from the first level, from a level
\* asked for, from the last level
GenerateNegativeLevels == {0, 1, 13, MAX_LEVEL}

\* numbers randomInt(min, max) returns: the ends of the range, their
\* neighbours and the middle
Sampled(min, max) ==
  {min, min + 1, (min + max) \div 2, max - 1, max} \cap min..max

\* options?.allowNegative ?? spec.allowNegative ?? false
ResolvedAllowNegative(option, spec) ==
  IF option # "unset" THEN option = "true"
  ELSE IF "allowNegative" \in DOMAIN spec THEN spec.allowNegative
  ELSE FALSE

GenerateInit == SessionInit

\* generateQuestion(skill, level, options) with the a and b drawn
Generated(skill, level, policy, negativeLevel, option) ==
  \E spec \in {getLevelSpec(skill, level)} :
    \E a \in Sampled(SpecMinA(spec), spec.maxA), b \in Sampled(SpecMinB(spec), spec.maxB) :
      /\ question' = generateQuestion(skill, level, ResolvedAllowNegative(option, spec),
                                      a, b, 1)
      /\ call' = [op |-> "generate", skill |-> skill, level |-> level, policy |-> policy,
                  negativeLevel |-> negativeLevel, a |-> a, b |-> b]

\* generateQuestion is pure: nothing of the session changes
SessionKept ==
  UNCHANGED <<stats, mode, screen, settings, answer, feedback, error, session,
              questionIndex, timeLeft, answered, advanceTimer, interval, stale,
              nextId, ledger, completions, engineVars>>

\* generateQuestion(skill, level): no options
GenerateDefault ==
  /\ \E skill \in Skills, level \in GenerateLevels :
       Generated(skill, level, "default", 0, "unset")
  /\ SessionKept

\* the provider's createQuestion({ skill, level, settings })
GenerateForSettings ==
  /\ \E skill \in Skills, level \in GenerateLevels,
         negativeLevel \in GenerateNegativeLevels :
       Generated(skill, level, "settings", negativeLevel,
                 IF allowNegativeFor(skill, level,
                                     [DEFAULT_SETTINGS EXCEPT !.negativeLevel = negativeLevel])
                   THEN "true" ELSE "false")
  /\ SessionKept

GenerateNext ==
  \/ GenerateDefault
  \/ GenerateForSettings

GenerateSpec == GenerateInit /\ [][GenerateNext]_vars

(***************************************************************************)
(* LevelSpec: getLevelSpec and getTargetMs asked for levels inside and     *)
(* outside 1..MAX_LEVEL.  call holds the arguments and what was returned   *)
(***************************************************************************)
\* levels asked for lie this far below 1 and above MAX_LEVEL
LevelMargin == 3

AskedLevels == (1 - LevelMargin)..(MAX_LEVEL + LevelMargin)

LevelInit == SessionInit

\* getLevelSpec(skill, level) and getTargetMs(level)
AskLevel ==
  /\ \E skill \in Skills, level \in AskedLevels :
       call' = [op |-> "level", skill |-> skill, level |-> level,
                spec |-> getLevelSpec(skill, level), targetMs |-> getTargetMs(level)]
  /\ UNCHANGED <<stats, hookVars, engineVars>>

LevelNext == AskLevel

LevelSpec == LevelInit /\ [][LevelNext]_vars

(***************************************************************************)
(* AggregateSpec: the accuracy and the average time of one skill read      *)
(* between the results recorded for it; log keeps every result             *)
(***************************************************************************)
\* results recorded while the aggregates are read
MaxAggregated == 4

AggregatedSkill == "sub"

AggregatedResults ==
  { [correct |-> TRUE, ms |-> 1000], [correct |-> FALSE, ms |-> 2000],
    [correct |-> TRUE, ms |-> 5701] }

\* fast correct answers already in the history: none, or one short of
\* MAX_HISTORY
AggregateWarmUps == {0, MAX_HISTORY - 1}

AggregateInit ==
  /\ \E n \in AggregateWarmUps :
       /\ stats = Drilled(createDefaultStats, AggregatedSkill, n)
       /\ log = [skill \in Skills |->
                  IF skill = AggregatedSkill
                    THEN [i \in 1..n |-> [correct |-> TRUE, ms |-> 2400]]
                    ELSE <<>>]
  /\ call = NoCall
  /\ calls = 0
  /\ demoted = [skill \in Skills |-> FALSE]
  /\ HookInit(DEFAULT_SETTINGS, "mix")

\* updateStats records a result of the skill
AggregateRecord ==
  /\ calls < MaxAggregated
  /\ \E r \in AggregatedResults :
       /\ stats' = updateStats(stats, AggregatedSkill, r.correct, r.ms)
       /\ log' = [log EXCEPT ![AggregatedSkill] = Append(@, r)]
  /\ call' = NoCall
  /\ calls' = calls + 1
  /\ UNCHANGED <<demoted, hookVars>>

\* getAccuracy and getAverageMs of the skill's stats, as the stats screen
\* reads them
AggregateRead ==
  /\ call = NoCall
  /\ call' = [op |-> "aggregate",
              accuracy |-> getAccuracy(stats[AggregatedSkill]),
              averageMs |-> getAverageMs(stats[AggregatedSkill])]
  /\ UNCHANGED <<stats, engineVars, hookVars>>

AggregateNext ==
  \/ AggregateRecord
  \/ AggregateRead

AggregateSpec == AggregateInit /\ [][AggregateNext]_vars

(***************************************************************************)
(* SelectSpec: getWeakestSkill and pickSkill read between the results      *)
(* recorded for the four skills.  call holds what was asked and returned   *)
(***************************************************************************)
\* results recorded while the skills are selected
MaxSelected == 4

\* Math.random() in pickSkill is one of 0/SelectDen .. (SelectDen-1)/SelectDen
SelectDen == 24

SelectInit ==
  /\ stats = createDefaultStats
  /\ call = NoCall
  /\ EngineInit
  /\ HookInit(DEFAULT_SETTINGS, "mix")

\* updateStats records a result of a skill
SelectRecord ==
  /\ calls < MaxSelected
  /\ \E skill \in Skills, correct \in BOOLEAN :
       stats' = updateStats(stats, skill, correct, 2400)
  /\ call' = NoCall
  /\ calls' = calls + 1
  /\ UNCHANGED <<demoted, log, hookVars>>

\* getWeakestSkill(stats)
SelectWeakest ==
  /\ call' = [op |-> "weakest", skill |-> getWeakestSkill(stats), num |-> 0]
  /\ UNCHANGED <<stats, engineVars, hookVars>>

\* pickSkill(stats) with Math.random() = num / SelectDen
SelectPick ==
  /\ \E num \in 0..(SelectDen - 1) :
       call' = [op |-> "pick", skill |-> pickSkill(stats, num, SelectDen), num |-> num]
  /\ UNCHANGED <<stats, engineVars, hookVars>>

SelectNext ==
  \/ SelectRecord
  \/ SelectWeakest
  \/ SelectPick

SelectSpec == SelectInit /\ [][SelectNext]_vars

(***************************************************************************)
(* DrawSpec: questions drawn for a learner two fast correct answers into a *)
(* streak for add and for mul, so that one more answer changes a level     *)
(***************************************************************************)
\* questions drawn while the draws are watched
DrawQuestions == 2

DrawModes == {"mix", "mul"}

\* answers given before the page was loaded
DrawnStats == Drilled(Drilled(createDefaultStats, "mul", 2), "add", 2)

DrawInit ==
  /\ \E saved \in SavedSettings :
       HookInit(normalizeSettings(MergeSettings(DEFAULT_SETTINGS, saved), settingControls),
                "mix")
  /\ stats = DrawnStats
  /\ call = NoCall
  /\ EngineInit

DrawStart == StartSessionFor(DrawQuestions, DrawModes)

DrawNextPressed == HandleNextWithin(DrawQuestions)

DrawAdvanceFired == AdvanceTimerFiresWithin(DrawQuestions)

DrawNext ==
  \/ DrawStart /\ UNCHANGED <<settings, call, engineVars>>
  \/ TypeAnswer /\ UNCHANGED <<settings, call, engineVars>>
  \/ HandleSubmit /\ UNCHANGED <<settings, call, engineVars>>
  \/ DrawNextPressed /\ UNCHANGED <<settings, call, engineVars>>
  \/ DrawAdvanceFired /\ UNCHANGED <<settings, call, engineVars>>
  \/ Tick /\ UNCHANGED <<settings, call, engineVars>>
  \/ Render /\ UNCHANGED <<settings, call, engineVars>>

DrawSpec == DrawInit /\ [][DrawNext]_vars

\* C38: a skill above level 1 has a mistakeStreak of at most 1, and no skill
\* has both a streak and a mistakeStreak
C38_Streaks ==
  \A skill \in Skills :
    /\ stats[skill].level > 1 => stats[skill].mistakeStreak <= 1
    /\ stats[skill].streak = 0 \/ stats[skill].mistakeStreak = 0

\* a first miss above level 1, after a streak
C38_Witness ==
  /\ Updated /\ ~call.correct
  /\ Before.level > 1 /\ Before.streak > 0
  /\ After.level = Before.level /\ After.mistakeStreak = 1 /\ After.streak = 0

\* C39: updateStats leaves the stats of every skill but the named one as
\* they were, returns stats for every skill, and moves the level of the named
\* skill by at most 1
C39_OnlyNamedSkill ==
  Updated =>
    /\ DOMAIN stats = Skills
    /\ \A other \in Skills \ {call.skill} : stats[other] = call.before[other]
    /\ After.level - Before.level \in {-1, 0, 1}

\* a demotion of one skill next to a skill with results of its own
C39_Witness ==
  /\ Updated
  /\ After.level = Before.level - 1
  /\ \E other \in Skills \ {call.skill} :
       /\ stats[other].history # <<>>
       /\ stats[other] = call.before[other]

(***************************************************************************)
(* Claims on the session                                                   *)
(***************************************************************************)
\* C2: every drawn question is scored at most once: updateStats is applied
\* at most once for it and session.correct + session.wrong grows by at most
\* 1 for it, whatever the order of a submit, the countdown's zero tick and
\* the renders; and a countdown that reached zero has called handleTimeout
\* exactly once by the time its render is done
C2_OneResultPerQuestion ==
  \A id \in DOMAIN ledger :
    /\ ledger[id].scored <= 1
    /\ ledger[id].gain <= 1
    /\ ledger[id].timeouts <= ledger[id].zeros
    /\ stale = Null => ledger[id].timeouts = ledger[id].zeros

\* the countdown part of C2 alone
ZeroCallsTimeoutOnce ==
  \A id \in DOMAIN ledger :
    /\ ledger[id].zeros <= 1
    /\ ledger[id].timeouts <= ledger[id].zeros
    /\ stale = Null => ledger[id].timeouts = ledger[id].zeros

\* a step in which the countdown's handleTimeout ran for question id
TimeoutRan(id) == ledger'[id].timeouts = ledger[id].timeouts + 1

\* the values the countdown's callback closed over: those of the render that
\* armed the interval
TimerClosure == IF stale # Null /\ stale.updater THEN stale.armed ELSE Closure

\* C10: when the countdown of an unanswered question reaches 0 and
\* handleTimeout runs, answered becomes true and feedback has correct = false
\* and timedOut = true; where the question is scored once in that step,
\* session.wrong grows by 1, session.correct stays and stats is
\* updateStats(stats, the question's skill, false, elapsed); and the render
\* that shows this feedback leaves the auto-advance timer armed
C10_TimeoutScoresIncorrect ==
  [][/\ \A id \in DOMAIN ledger :
          TimeoutRan(id) =>
            /\ TimerClosure.question # Null
            /\ TimerClosure.question.id = id
            /\ ~TimerClosure.answered
            /\ answered'
            /\ feedback' # Null
            /\ ~feedback'.correct
            /\ feedback'.timedOut
            /\ ledger'[id].scored = ledger[id].scored + 1 =>
                 /\ session' = [session EXCEPT !.wrong = @ + 1]
                 /\ stats' = updateStats(stats, TimerClosure.question.skill, FALSE, feedback'.ms)
            /\ stale' = Null => advanceTimer' = "pending"
     /\ (/\ stale # Null
         /\ stale' = Null
         /\ feedback # Null
         /\ feedback.timedOut
         /\ feedback' = feedback) => advanceTimer' = "pending"
    ]_vars

\* a countdown ran out on a question nobody answered, the render is done and
\* the auto-advance timer is armed
C10_Witness ==
  /\ question # Null
  /\ stale = Null
  /\ ledger[question.id] = [scored |-> 1, gain |-> 1, zeros |-> 1, timeouts |-> 1]
  /\ feedback # Null
  /\ feedback.timedOut
  /\ ~feedback.correct
  /\ answered
  /\ session.wrong >= 1
  /\ advanceTimer = "pending"

\* the rendered state in which a question is answered on the drill screen
\* with a correct or timed out result, and a next question can be drawn
AutoAdvanceDue ==
  /\ stale = Null
  /\ screen = "drill"
  /\ question # Null
  /\ answered
  /\ feedback # Null
  /\ feedback.correct \/ feedback.timedOut
  /\ nextId <= MaxQuestions

\* where the timer's handleNext leaves the session: the next question of the
\* session's mode drawn and waiting for its render
AdvancedBy(draw) ==
  /\ stale' # Null
  /\ screen' = "drill"
  /\ questionIndex' = questionIndex + 1
  /\ question' = createQuestion(mode, World, draw)
  /\ ~answered'
  /\ feedback' = Null
  /\ advanceTimer' = "null"

WrongShown ==
  /\ stale = Null
  /\ question # Null
  /\ answered
  /\ feedback # Null
  /\ ~feedback.correct
  /\ ~feedback.timedOut

\* what the learner sees of the answered question
Shown == <<screen, question, questionIndex, answered, feedback, session>>

NextStep == HandleNextWithin(LongQuestions) \/ AdvanceTimerFiresWithin(LongQuestions)

\* C13: handleNext called for an answered question shows the summary exactly
\* when the question index it sees plus 1 exceeds settings.questionCount;
\* otherwise the index becomes that index plus 1, a new question is drawn for
\* the session's mode, answered is false, feedback and answer are cleared and
\* timeLeft is settings.timeLimitSeconds
C13_HandleNext ==
  [][NextStep /\ Closure.question # Null /\ Closure.answered =>
       IF Closure.questionIndex + 1 > settings.questionCount
         THEN /\ screen' = "summary"
              /\ question' = Null
              /\ ~answered'
         ELSE /\ screen' = Closure.screen
              /\ screen' # "summary"
              /\ questionIndex' = Closure.questionIndex + 1
              /\ \E draw \in Draws : question' = createQuestion(mode, World, draw)
              /\ question'.id # Closure.question.id
              /\ ~answered'
              /\ feedback' = Null
              /\ answer' = <<>>
              /\ timeLeft' = settings.timeLimitSeconds
    ]_vars

\* the last question of a long drill was answered and handleNext has shown
\* the summary
C13_Witness ==
  /\ screen = "summary"
  /\ question = Null
  /\ ~answered
  /\ questionIndex = settings.questionCount
  /\ nextId = settings.questionCount + 1
  /\ completions = 1

\* C15: startSession(nextMode), called in any state, leaves session.correct
\* and session.wrong 0, questionIndex 1, screen "drill" and mode nextMode, no
\* auto-advance timer pending, a first question drawn for nextMode, answered
\* false, no feedback, no error, an empty answer and timeLeft equal to
\* settings.timeLimitSeconds
C15_StartSession ==
  [][StartSession =>
       /\ session' = [correct |-> 0, wrong |-> 0]
       /\ questionIndex' = 1
       /\ screen' = "drill"
       /\ advanceTimer' # "pending"
       /\ \E nextMode \in MenuModes, draw \in Draws :
            /\ mode' = nextMode
            /\ question' = createQuestion(nextMode, World, draw)
       /\ question'.id = nextId
       /\ ~answered'
       /\ feedback' = Null
       /\ error' = NoError
       /\ answer' = <<>>
       /\ timeLeft' = settings.timeLimitSeconds
    ]_vars

\* startSession("sub") was called after a question of another session had
\* been scored
C15_Witness ==
  /\ stale = Null
  /\ screen = "drill"
  /\ mode = "sub"
  /\ question # Null
  /\ question.id = 2
  /\ question.skill = "sub"
  /\ ledger[1].scored = 1
  /\ questionIndex = 1
  /\ session = [correct |-> 0, wrong |-> 0]
  /\ ~answered
  /\ feedback = Null
  /\ timeLeft = settings.timeLimitSeconds

\* what handleSubmit makes of the answer it closed over
Parsed(c) == parseNumericInput(sanitizeNumericInput(Trim(c.answer), allowNegativeAnswer(c)))

\* handleSubmit would run for an unanswered question and reject its answer
Rejects(c) == c.question # Null /\ ~c.answered /\ Parsed(c).error # "none"

\* C16: a submission that handleSubmit rejects (empty, incomplete or invalid,
\* a "-" typed where negative answers are not allowed among them) sets the
\* error message and nothing else: screen, question, answer, answered flag,
\* feedback, session counters, stats, questionIndex and timeLeft keep their
\* values, a running countdown keeps running and no result is scored
C16_RejectedOnlySetsError ==
  [][EntrySubmit /\ Rejects(Closure) =>
       /\ error' # NoError
       /\ UNCHANGED <<screen, question, answer, answered, feedback, session, stats,
                      questionIndex, timeLeft, ledger, mode>>
       /\ stale = Null => interval' = interval /\ advanceTimer' = advanceTimer
    ]_vars

\* "-" was typed for a question that takes no negative answer and submitted:
\* the message is shown and the countdown, some of it used, still runs
C16_Witness ==
  /\ stale = Null
  /\ call = [op |-> "handleAnswerChange", rawValue |-> <<"-">>]
  /\ question # Null
  /\ ~allowNegativeAnswer(View)
  /\ error # NoError
  /\ ~answered
  /\ feedback = Null
  /\ interval
  /\ timeLeft < settings.timeLimitSeconds
  /\ session = [correct |-> 0, wrong |-> 0]
  /\ ledger[question.id].scored = 0

\* the text the learner entered for the answer handleSubmit closed over: the
\* text typed into the field, or the answer keyed in on the keypad
Entered(c) == IF call.op = "handleAnswerChange" THEN Trim(call.rawValue) ELSE Trim(c.answer)

HasDigit(text) == \E i \in 1..Len(text) : text[i] \in DigitChars
HasSign(text) == \E i \in 1..Len(text) : text[i] = "-"

\* handleSubmit runs for an unanswered question
Submits(c) == EntrySubmit /\ c.question # Null /\ ~c.answered

\* C17 as stated: an empty text is reported as 'empty', a bare sign as
\* 'incomplete' and a number that is not finite as 'invalid', the same whether
\* or not the question takes negative answers
C17_Original ==
  [][Submits(Closure) =>
       /\ Entered(Closure) = <<>> =>
            error' \in {ErrorMessage("empty"), ErrorMessage("emptyKeypad")}
       /\ Entered(Closure) = <<"-">> => error' = ErrorMessage("incomplete")
       /\ (HasDigit(Entered(Closure))
             /\ ~NumberIsFinite(Filter(Entered(Closure), DigitChars))) =>
            error' = ErrorMessage("invalid")
    ]_vars

\* C17, amended: the four messages differ; a text without digits is reported
\* as 'incomplete' when it has a "-" and the question takes negative answers,
\* and as 'empty' (errors.emptyKeypad from the keypad's submit key) otherwise,
\* a bare sign for a question without negative answers included; a text
\* whose digits are not a finite Number is reported as 'invalid'; any other
\* text is scored and leaves no message
C17_Classification ==
  /\ [](Cardinality({ErrorMessage(kind) :
                       kind \in {"empty", "emptyKeypad", "incomplete", "invalid"}}) = 4)
  /\ [][Submits(Closure) =>
         LET text == Entered(Closure)
             signed == HasSign(text) /\ allowNegativeAnswer(Closure)
         IN /\ (~HasDigit(text) /\ signed) => error' = ErrorMessage("incomplete")
            /\ (~HasDigit(text) /\ ~signed) =>
                 error' \in {ErrorMessage("empty"), ErrorMessage("emptyKeypad")}
            /\ (HasDigit(text) /\ ~NumberIsFinite(Filter(text, DigitChars))) =>
                 error' = ErrorMessage("invalid")
            /\ (HasDigit(text) /\ NumberIsFinite(Filter(text, DigitChars))) =>
                 error' = NoError /\ answered'
      ]_vars

\* a bare sign between blanks was typed for a question that takes negative
\* answers and submitted: 'incomplete' is shown and the question is open
C17_Witness ==
  /\ stale = Null
  /\ call = [op |-> "handleAnswerChange", rawValue |-> <<" ", "-", " ">>]
  /\ question # Null
  /\ allowNegativeAnswer(View)
  /\ answer = <<"-">>
  /\ error = ErrorMessage("incomplete")
  /\ ~answered
  /\ feedback = Null

\* handleSubmit runs for an unanswered question and takes its answer
Accepts(c) == c.question # Null /\ ~c.answered /\ Parsed(c).error = "none"

\* C18: a submission that handleSubmit takes for an unanswered question
\* scores the question once in that step: the result is correct exactly when
\* the parsed value is question.answer, session.correct grows by 1 for a
\* correct result and session.wrong by 1 for any other while the other counter
\* stays, stats becomes updateStats(stats, the question's skill, that result,
\* the elapsed time), the feedback has that result with timedOut false, the
\* answered flag is set and the error message is cleared
C18_ValidSubmissionScores ==
  [][EntrySubmit /\ Accepts(Closure) =>
       LET q == Closure.question
           correct == Parsed(Closure).value = q.answer
       IN /\ answered'
          /\ feedback' # Null
          /\ feedback'.correct = correct
          /\ ~feedback'.timedOut
          /\ feedback'.skill = q.skill
          /\ session' = IF correct THEN [session EXCEPT !.correct = @ + 1]
                                    ELSE [session EXCEPT !.wrong = @ + 1]
          /\ stats' = updateStats(stats, q.skill, correct, feedback'.ms)
          /\ ledger'[q.id].scored = ledger[q.id].scored + 1
          /\ ledger'[q.id].gain = ledger[q.id].gain + 1
          /\ error' = NoError
          /\ UNCHANGED <<question, questionIndex, screen>>
    ]_vars

\* the expected answer of a subtraction below zero was typed and submitted:
\* it is scored once as correct and the stats of the skill have its result
C18_Witness ==
  /\ stale = Null
  /\ question # Null
  /\ question.answer < 0
  /\ call = [op |-> "handleAnswerChange", rawValue |-> formatExpected(question)]
  /\ answered
  /\ feedback # Null
  /\ feedback.correct
  /\ ~feedback.timedOut
  /\ session = [correct |-> 1, wrong |-> 0]
  /\ ledger[question.id] = [scored |-> 1, gain |-> 1, zeros |-> 0, timeouts |-> 0]
  /\ stats[question.skill] # createDefaultStats[question.skill]

\* a 7 was submitted for a question with another answer: it is scored once
\* as wrong
WrongScored ==
  /\ stale = Null
  /\ question # Null
  /\ question.answer # 7
  /\ answer = <<"7">>
  /\ answered
  /\ feedback # Null
  /\ ~feedback.correct
  /\ ~feedback.timedOut
  /\ session = [correct |-> 0, wrong |-> 1]

\* a step in which the countdown's zero updater called handleTimeout
TimeoutStep == \E id \in DOMAIN ledger : TimeoutRan(id)

\* what C19 says a guarded handler leaves alone
Scored == <<session, stats, feedback, error, answered>>

\* C19: handleSubmit and handleTimeout, called when there is no question or
\* the question is already answered, change neither the session counters,
\* stats, feedback, the error message nor the answered flag
C19_NoOpUnlessLive ==
  [][(HandleSubmit \/ TimeoutStep) /\ (question = Null \/ answered) =>
       UNCHANGED Scored]_vars

\* the guard of C19 as the code has it: on the question and the answered
\* flag of the last render
GuardOnLastRender ==
  [][(HandleSubmit \/ TimeoutStep) /\ (TimerClosure.question = Null \/ TimerClosure.answered)
       /\ (Closure.question = Null \/ Closure.answered) =>
       UNCHANGED Scored]_vars

\* a step of goToMenu in the session
WentToMenu == GoToMenu /\ UNCHANGED <<settings, call, engineVars>>

\* C20: goToMenu can be called in every state, and the state it leaves has
\* screen "menu", no question, no feedback, no error, an empty answer,
\* answered false, no auto-advance timer pending and no countdown interval
\* running; stats, settings and mode keep their values
C20_GoToMenu ==
  /\ [](ENABLED WentToMenu)
  /\ [][WentToMenu =>
         /\ screen' = "menu"
         /\ question' = Null
         /\ feedback' = Null
         /\ error' = NoError
         /\ answer' = <<>>
         /\ ~answered'
         /\ advanceTimer' = "null"
         /\ ~interval'
         /\ UNCHANGED <<stats, settings, mode>>
      ]_vars

\* goToMenu was called on a drill whose first question was answered
\* correctly: the menu is shown, the timer that was pending is cleared and the
\* result stays in the counters and the stats
C20_Witness ==
  /\ stale = Null
  /\ screen = "menu"
  /\ question = Null
  /\ feedback = Null
  /\ ~answered
  /\ advanceTimer = "null"
  /\ ~interval
  /\ nextId = 2
  /\ completions = 0
  /\ ledger[1].scored = 1
  /\ session = [correct |-> 1, wrong |-> 0]
  /\ stats # createDefaultStats

\* the timer's handleNext has advanced the drill and its render waits: the
\* Next button of the answered question is still on the page
AdvanceWaits ==
  /\ stale # Null
  /\ ~stale.updater
  /\ Closure.question # Null
  /\ Closure.answered
  /\ questionIndex = Closure.questionIndex + 1

\* C21: the question index changes only when startSession sets it to 1 or
\* when handleNext, from the button or the timer, leaves a question that was
\* rendered as answered, and then it grows by exactly 1; it never runs ahead
\* of the results counted.  A Next pressed for a question the timer has
\* already left changes neither index nor screen; goToMenu and startSession
\* leave no timer pending; a pending timer belongs to the rendered feedback,
\* and a timer that fires where no answered question is rendered changes
\* nothing of the session
C21_AdvanceOncePerQuestion ==
  /\ [](screen = "drill" => questionIndex <= session.correct + session.wrong + 1)
  /\ [](advanceTimer = "pending" /\ stale = Null => AdvanceArmed(feedback))
  /\ [][/\ questionIndex' # questionIndex =>
             \/ AdvanceStart /\ questionIndex' = 1
             \/ /\ NextPressed \/ AdvanceFired
                /\ Closure.question # Null
                /\ Closure.answered
                /\ question = Closure.question
                /\ questionIndex' = questionIndex + 1
        /\ NextPressed /\ AdvanceWaits =>
             questionIndex' = questionIndex /\ screen' = screen
        /\ GoToMenu \/ AdvanceStart => advanceTimer' = "null"
        /\ AdvanceFired /\ (Closure.question = Null \/ ~Closure.answered) =>
             UNCHANGED <<screen, question, questionIndex, session, answered, feedback>>
       ]_vars

\* the first question was answered correctly, the timer fired and Next was
\* pressed before the render: a third question is drawn, the second was not
\* scored, and the index is 2
C21_Witness ==
  /\ stale = Null
  /\ screen = "drill"
  /\ questionIndex = 2
  /\ Len(ledger) = 3
  /\ question # Null
  /\ question.id = 3
  /\ ledger[1].scored = 1
  /\ ledger[2].scored = 0
  /\ session = [correct |-> 1, wrong |-> 0]
  /\ ~answered

\* a step of the interval's callback
Ticked == call'.op = "tick" /\ call.op = "tick" /\ call'.n = call.n + 1

\* a step in which the interval's callback found no time left for question id
ZeroTicked(id) == ledger'[id].zeros = ledger[id].zeros + 1

C23_SettingsWithinBounds ==
  /\ settings.questionCount >= 5
  /\ settings.questionCount <= 50
  /\ settings.timeLimitSeconds >= 5
  /\ settings.timeLimitSeconds <= 60
  /\ settings.negativeLevel >= 0
  /\ settings.negativeLevel <= MAX_LEVEL
  /\ \A i \in DOMAIN settingControls :
       /\ settings[settingControls[i].id] >= settingControls[i].min
       /\ settings[settingControls[i].id] <= settingControls[i].max

\* a blob with every field beyond its bound was loaded and every stepper was
\* then pressed: the settings are at the bounds
C23_Witness ==
  /\ call = [op |-> "load",
             saved |-> [questionCount |-> 99, timeLimitSeconds |-> 0,
                        negativeLevel |-> MAX_LEVEL + 1]]
  /\ calls = MaxAdjusts
  /\ settings = [questionCount |-> 49, timeLimitSeconds |-> 5, negativeLevel |-> MAX_LEVEL]

\* C24: once the native app has loaded the settings blob, questionCount is
\* in [5, 50], timeLimitSeconds in [5, 60] and negativeLevel in
\* [0, MAX_LEVEL]
C24_NativeSettingsClamped ==
  call.op = "ready" =>
    /\ settings.questionCount >= 5
    /\ settings.questionCount <= 50
    /\ settings.timeLimitSeconds >= 5
    /\ settings.timeLimitSeconds <= 60
    /\ settings.negativeLevel >= 0
    /\ settings.negativeLevel <= MAX_LEVEL

\* what the native app does clamp: negativeLevel when the blob is loaded,
\* and each setting when its stepper is pressed
NativeNegativeLevelClamped ==
  /\ [](settings.negativeLevel >= 0 /\ settings.negativeLevel <= MAX_LEVEL)
  /\ [][NativeAdjust =>
         \/ settings'.questionCount >= 5 /\ settings'.questionCount <= 50
            /\ settings'.questionCount # settings.questionCount
         \/ settings'.timeLimitSeconds >= 5 /\ settings'.timeLimitSeconds <= 60
            /\ settings'.timeLimitSeconds # settings.timeLimitSeconds
         \/ settings'.negativeLevel # settings.negativeLevel
         \/ settings' = settings
      ]_vars

\* C25: a storage whose getItem and setItem throw neither unmounts the page
\* nor leaves an exception on its way out of an effect
C25_StorageFailureIgnored ==
  call.backend = "throws" => Mounted /\ ~call.raised

\* a session item that is there and is not { stats, mode }: no JSON, or stats
\* without a skill or with a level outside 1..MAX_LEVEL
MalformedSession(raw) ==
  /\ raw # NoItem
  /\ \E saved \in {readJSON(raw)} :
       \/ saved = Null
       \/ /\ "stats" \in DOMAIN saved
          /\ \/ ~(Skills \subseteq DOMAIN saved.stats)
             \/ \E skill \in DOMAIN saved.stats :
                  saved.stats[skill].level \notin 1..MAX_LEVEL

\* C26: a page loaded from a malformed session item in a working storage
\* mounts and starts with the default stats and mode, as from no item
C26_MalformedAsAbsent ==
  [][ Reload /\ call.backend = "works" /\ MalformedSession(call.session)
        => Mounted' /\ stats' = createDefaultStats /\ mode' = "mix" ]_vars

\* C27: in a working storage the session item of the rendered page is the
\* JSON of { stats, mode } and the settings item the JSON of settings; a page
\* loaded again starts with these stats, mode and settings, on the menu with
\* no question, fresh counters and the countdown at the time limit
C27_RoundTrip ==
  /\ [](call.backend = "works" /\ Mounted /\ stale = Null
          => /\ JsonParse(call.session) =
                  ParsedValue([stats |-> stats, mode |-> mode], Len(call.session) + 1)
             /\ JsonParse(call.settings) =
                  ParsedValue(settings, Len(call.settings) + 1))
  /\ [][ Reload /\ call.backend = "works" /\ Mounted /\ stale = Null
          => /\ stats' = stats /\ mode' = mode /\ settings' = settings
             /\ Mounted'
             /\ screen' = "menu" /\ question' = Null /\ answer' = <<>>
             /\ feedback' = Null /\ error' = NoError /\ ~answered'
             /\ session' = [correct |-> 0, wrong |-> 0] /\ questionIndex' = 1
             /\ timeLeft' = settings.timeLimitSeconds
             /\ ~interval' /\ advanceTimer' = "null" ]_vars

\* the page was loaded again after a scored question and a settings button:
\* the counters are fresh, the stats, the mode and the settings are not
C27_Witness ==
  /\ call.backend = "works" /\ Mounted /\ stale = Null
  /\ screen = "menu" /\ session = [correct |-> 0, wrong |-> 0]
  /\ Len(ledger) = 1 /\ ledger[1].scored = 1
  /\ mode = "add"
  /\ Len(stats.add.history) = 2
  /\ settings.timeLimitSeconds = 5 /\ settings.questionCount = 21

\* C28: the screen starts at the menu.  It becomes the drill by startSession
\* only, from the menu or the summary; the summary from the drill only, by
\* handleNext on the last question once it is answered; stats and settings
\* from the menu only, and from them nothing but the menu; the menu by
\* goToMenu.  Every other screen has its way back to the menu, the rendered
\* summary a way into a drill of the same mode, and no state is terminal
C28_ScreenGraph ==
  /\ screen = "menu"
  /\ [][ screen' # screen =>
            \/ /\ screen' = "drill" /\ screen \in {"menu", "summary"}
               /\ MenuStart \/ PracticeAgain
               /\ screen = "summary" => mode' = mode
            \/ /\ screen' = "summary" /\ screen = "drill"
               /\ ScreenNextPressed \/ ScreenAdvanceFired
               /\ Closure.answered /\ Closure.questionIndex = settings.questionCount
            \/ /\ screen' \in {"stats", "settings"} /\ screen = "menu"
               /\ OpenScreen
            \/ /\ screen' = "menu"
               /\ GoBack ]_vars
  /\ [](screen # "menu" => ENABLED (GoBack /\ screen' = "menu"))
  /\ [](screen = "summary" /\ stale = Null /\ nextId <= ScreenQuestions
          => ENABLED (PracticeAgain /\ screen' = "drill" /\ mode' = mode))
  /\ [](screen = "menu" /\ stale = Null => ENABLED OpenScreen)

\* the summary of a whole drill, rendered, with a question left to draw
C28_Witness ==
  /\ screen = "summary" /\ stale = Null
  /\ session.correct + session.wrong = settings.questionCount
  /\ nextId = ScreenQuestions
  /\ mode = "mul"

\* the value of the expression a question shows: its operands under its sign
ShownValue(q) ==
  CASE q.text[2] = "+" -> q.text[1] + q.text[3]
    [] q.text[2] = "-" -> q.text[1] - q.text[3]
    [] q.text[2] = "x" -> q.text[1] * q.text[3]

\* C29: a generated question shows the sign of its skill; its answer is the
\* sum, the difference or the product of the operands shown, which are the
\* numbers drawn, and for a division the divisor shown is at least 1 and the
\* dividend shown is the divisor times the answer
C29_AnswerIsShownValue ==
  call.op = "generate" =>
    /\ question.skill = call.skill /\ question.level = call.level
    /\ question.text[2] = SKILL_SYMBOLS[call.skill]
    /\ call.skill \in {"add", "mul"} =>
         /\ question.text[1] = call.a /\ question.text[3] = call.b
         /\ question.answer = ShownValue(question)
    /\ call.skill = "sub" =>
         /\ {question.text[1], question.text[3]} = {call.a, call.b}
         /\ question.answer = ShownValue(question)
    /\ call.skill = "div" =>
         /\ question.text[3] >= 1
         /\ question.text[1] = question.text[3] * question.answer

\* a division of the last level with the largest numbers drawn
C29_Witness ==
  /\ call.op = "generate" /\ call.skill = "div" /\ call.level = MAX_LEVEL
  /\ question.text = <<280 * 222, "/", 280>>
  /\ question.answer = 222

\* negative results are allowed for the question asked for
NegativeAllowed ==
  /\ call.skill = "sub" /\ call.policy = "settings"
  /\ call.negativeLevel > 0 /\ call.level >= call.negativeLevel

\* C30: a subtraction generated with negative results not allowed (no
\* options, negativeLevel 0, or a level below negativeLevel) shows the larger
\* number drawn first and has no negative answer; with negative results
\* allowed it shows a and b as drawn and its answer is a - b; the answers of
\* the other skills are never negative
C30_SubtractionOrder ==
  call.op = "generate" =>
    /\ call.skill = "sub" /\ ~NegativeAllowed =>
         /\ question.text[1] = Max2(call.a, call.b)
         /\ question.text[3] = Min2(call.a, call.b)
         /\ question.answer >= 0
    /\ NegativeAllowed =>
         /\ question.text[1] = call.a /\ question.text[3] = call.b
         /\ question.answer = call.a - call.b
    /\ call.skill # "sub" => question.answer >= 0

\* a subtraction at the level that allows negative results, with a below b
C30_Witness ==
  /\ call.op = "generate" /\ NegativeAllowed
  /\ call.level = 13 /\ call.negativeLevel = 13
  /\ call.a < call.b
  /\ question.answer < 0

\* C31: every skill's table has MAX_LEVEL entries; getLevelSpec returns the
\* entry of the level for a level in 1..MAX_LEVEL, the first entry for a level
\* below 1 and the last one for a level above MAX_LEVEL, and the entry
\* returned has minA <= maxA and minB <= maxB
C31_LevelSpecClamped ==
  call.op = "level" =>
    /\ Len(LEVELS[call.skill]) = MAX_LEVEL
    /\ call.spec = LEVELS[call.skill][IF call.level < 1 THEN 1
                                      ELSE IF call.level > MAX_LEVEL THEN MAX_LEVEL
                                      ELSE call.level]
    /\ SpecMinA(call.spec) <= call.spec.maxA
    /\ SpecMinB(call.spec) <= call.spec.maxB

\* a level above MAX_LEVEL gets the last entry of the division table
C31_Witness ==
  /\ call.op = "level" /\ call.skill = "div" /\ call.level = MAX_LEVEL + LevelMargin
  /\ call.spec = LEVELS["div"][MAX_LEVEL]
  /\ call.spec.maxA = 280 /\ call.spec.minA = 15

\* C32: getTargetMs is 6000 - 300 * level cut to 2400..6000: 6000 up to
\* level 0, 2400 from level 12 on; it lies in 2400..6000 and no higher level
\* has a higher target time
C32_TargetMs ==
  call.op = "level" =>
    /\ call.targetMs = (IF call.level <= 0 THEN 6000
                        ELSE IF call.level >= 12 THEN 2400
                        ELSE 6000 - 300 * call.level)
    /\ call.targetMs >= 2400 /\ call.targetMs <= 6000
    /\ \A higher \in AskedLevels :
         higher >= call.level => getTargetMs(higher) <= call.targetMs

\* the level at which the target time reaches its floor
C32_Witness ==
  /\ call.op = "level" /\ call.level = 12
  /\ call.targetMs = 2400
  /\ getTargetMs(11) = 2700

\* the results the aggregates are taken over: the last MAX_HISTORY recorded
AggregatedHistory == SliceLast(log[AggregatedSkill], MAX_HISTORY)

\* C33: over no results the accuracy and the average time are 0; otherwise
\* the accuracy is the number of correct results among the last MAX_HISTORY
\* recorded divided by their number, and the average time the sum of their
\* times divided by their number: 0.5 and 1500 for a correct result of 1000 ms
\* and a wrong one of 2000 ms
C33_Aggregates ==
  call.op = "aggregate" =>
    LET kept == AggregatedHistory
        hits == Cardinality({i \in 1..Len(kept) : kept[i].correct})
    IN /\ kept = <<>> => call.accuracy = 0 /\ call.averageMs = 0
       /\ kept # <<>> =>
            /\ call.accuracy * Len(kept) = hits * Scale
            /\ call.averageMs * Len(kept) = SumMs(kept) * AverageScale
       /\ kept = <<[correct |-> TRUE, ms |-> 1000], [correct |-> FALSE, ms |-> 2000]>> =>
            /\ 2 * call.accuracy = Scale
            /\ call.averageMs = 1500 * AverageScale

\* the aggregates read after a correct result of 1000 ms and a wrong one of
\* 2000 ms
C33_Witness ==
  /\ call.op = "aggregate"
  /\ log[AggregatedSkill] =
       <<[correct |-> TRUE, ms |-> 1000], [correct |-> FALSE, ms |-> 2000]>>
  /\ 2 * call.accuracy = Scale
  /\ call.averageMs = 1500 * AverageScale

\* the score of a skill as the fraction hits / results, 11 / 20 with no result
ScoreNum(skill) ==
  IF stats[skill].history = <<>> THEN 11
  ELSE Cardinality({i \in 1..Len(stats[skill].history) : stats[skill].history[i].correct})

ScoreDen(skill) ==
  IF stats[skill].history = <<>> THEN 20 ELSE Len(stats[skill].history)

\* the score of skill is at most / below the score of other
ScoreAtMost(skill, other) ==
  ScoreNum(skill) * ScoreDen(other) <= ScoreNum(other) * ScoreDen(skill)

ScoreBelow(skill, other) ==
  ScoreNum(skill) * ScoreDen(other) < ScoreNum(other) * ScoreDen(skill)

\* the place of a skill in SKILL_LIST
SkillPlace(skill) == CHOOSE i \in 1..Len(SKILL_LIST) : SKILL_LIST[i] = skill

\* C34: no skill has a score below the score of the skill getWeakestSkill
\* returns, and every skill before it in SKILL_LIST has a higher score
C34_WeakestSkill ==
  call.op = "weakest" =>
    /\ call.skill \in Skills
    /\ \A other \in Skills : ScoreAtMost(call.skill, other)
    /\ \A other \in Skills :
         SkillPlace(other) < SkillPlace(call.skill) => ScoreBelow(call.skill, other)

\* sub and mul share the lowest score, and sub is returned
C34_Witness ==
  /\ call.op = "weakest" /\ call.skill = "sub"
  /\ stats.add.history = <<>>
  /\ Len(stats.sub.history) = 1 /\ ~stats.sub.history[1].correct
  /\ Len(stats.mul.history) = 1 /\ ~stats.mul.history[1].correct

\* max(0.15, 1 - score) of a skill as the fraction WeightNum / WeightDen
WeightNum(skill) ==
  IF 20 * (ScoreDen(skill) - ScoreNum(skill)) >= 3 * ScoreDen(skill)
    THEN ScoreDen(skill) - ScoreNum(skill) ELSE 3

WeightDen(skill) ==
  IF 20 * (ScoreDen(skill) - ScoreNum(skill)) >= 3 * ScoreDen(skill)
    THEN ScoreDen(skill) ELSE 20

\* the weights of the skills before skill in SKILL_LIST, times Scale
WeightBefore(skill) ==
  SumWeights(stats, 1) - SumWeights(stats, SkillPlace(skill))

\* C35: the weight of every skill is max(0.15, 1 - score) and positive; the
\* skill pickSkill returns is the one whose stretch of the cumulative weights
\* holds the roll, the first skill for a roll of 0; every skill is returned
\* for some roll (looked at with the stats of each roll of 0); the weights are
\* equal when no skill has a correct result in its history; and a roll beyond
\* the total weight gives add
C35_PickSkill ==
  call.op = "pick" =>
    LET total == SumWeights(stats, 1)
    IN /\ \A skill \in Skills :
            /\ SkillWeight(stats, skill) * WeightDen(skill) = WeightNum(skill) * Scale
            /\ SkillWeight(stats, skill) > 0
       /\ call.skill \in Skills
       /\ \/ call.num = 0 /\ call.skill = SKILL_LIST[1]
          \/ /\ WeightBefore(call.skill) * SelectDen < call.num * total
             /\ call.num * total
                  <= (WeightBefore(call.skill) + SkillWeight(stats, call.skill)) * SelectDen
       /\ call.num = 0 =>
            \A skill \in Skills :
              \E num \in 0..(SelectDen - 1) : pickSkill(stats, num, SelectDen) = skill
       /\ (\A skill \in Skills : stats[skill].history # <<>> /\ ScoreNum(skill) = 0)
            => \A skill \in Skills : SkillWeight(stats, skill) = SkillWeight(stats, "add")
       /\ PickLoop(stats, 1, (total + 1) * SelectDen, SelectDen) = "add"

\* no skill has a correct result, and the highest roll picks the last skill
C35_Witness ==
  /\ call.op = "pick" /\ call.skill = "div" /\ call.num = SelectDen - 1
  /\ \A skill \in Skills : stats[skill].history # <<>> /\ ScoreNum(skill) = 0
  /\ \A skill \in Skills : SkillWeight(stats, skill) = Scale

\* the step draws a question
Draws_Question == question' # Null /\ question' # question

\* the results in the histories of allStats
RECURSIVE ResultsFrom(_, _)
ResultsFrom(allStats, i) ==
  IF i > Len(SKILL_LIST) THEN 0
  ELSE Len(allStats[SKILL_LIST[i]].history) + ResultsFrom(allStats, i + 1)

\* the results applyResult has scored for the questions drawn so far
RECURSIVE ScoredFrom(_)
ScoredFrom(i) ==
  IF i > Len(ledger) THEN 0 ELSE ledger[i].scored + ScoredFrom(i + 1)

\* C36: a question is drawn by startSession or handleNext, which leave the
\* stats alone; its level is the level of its skill in the stats, its skill is
\* the mode, or in the mix mode a skill pickSkill returns for the stats; and
\* the stats hold every result scored so far, the one of the question before
\* it among them
C36_DrawnFromLatestStats ==
  [][ Draws_Question =>
        /\ DrawStart \/ DrawNextPressed \/ DrawAdvanceFired
        /\ stats' = stats
        /\ question'.level = stats[question'.skill].level
        /\ mode' # "mix" => question'.skill = mode'
        /\ mode' = "mix" =>
             \E roll \in 0..(RollDen - 1) : question'.skill = pickSkill(stats, roll, RollDen)
        /\ ResultsFrom(stats, 1) = ResultsFrom(DrawnStats, 1) + ScoredFrom(1)
        /\ (question # Null /\ ledger[question.id].scored >= 1) =>
             Len(stats[question.skill].history) > Len(DrawnStats[question.skill].history)
      ]_vars

\* the second question of a mul drill, drawn at the level the first answer
\* has just reached
C36_Witness ==
  /\ question # Null /\ question.id = 2
  /\ mode = "mul" /\ question.skill = "mul"
  /\ DrawnStats.mul.level = 1
  /\ stats.mul.level = 2 /\ question.level = 2
  /\ ledger[1].scored = 1

\* C37: on the rendered drill screen the results counted for the session are
\* the questions before the current one, and the current one once it is
\* answered, and questionIndex lies in 1..settings.questionCount
C37_CountsFollowIndex ==
  (screen = "drill" /\ stale = Null) =>
    /\ session.correct + session.wrong
         = questionIndex - 1 + (IF answered THEN 1 ELSE 0)
    /\ questionIndex >= 1 /\ questionIndex <= settings.questionCount

\* C40: onSessionComplete is invoked exactly once each time a session
\* reaches the summary screen: a step calls it if and only if the step brings
\* the drill to the summary, and then once; it is not called by goToMenu and
\* not by an auto-advance timer that fires while the summary is shown
C40_CompleteOncePerSummary ==
  [][/\ completions' # completions =>
          /\ completions' = completions + 1
          /\ screen = "drill" /\ screen' = "summary"
     /\ screen # "summary" /\ screen' = "summary" => completions' = completions + 1
    ]_vars

\* num / den rounded to the nearest integer, a half rounded up
RoundedQuotient(num, den) == (2 * num + den) \div (2 * den)

\* C14: on the summary of a drill played to its end session.correct +
\* session.wrong is settings.questionCount, every question was scored once,
\* and the accuracy shown is 100 * correct / (correct + wrong) rounded to the
\* nearest integer
C14_SummaryAccuracy ==
  screen = "summary" =>
    /\ session.correct + session.wrong = settings.questionCount
    /\ Len(ledger) = settings.questionCount
    /\ \A id \in DOMAIN ledger : ledger[id].scored = 1
    /\ accuracyOf(session) = RoundedQuotient(100 * session.correct,
                                             session.correct + session.wrong)

\* the counters of the summary alone
SummaryCountsAllQuestions ==
  screen = "summary" =>
    /\ session.correct + session.wrong = settings.questionCount
    /\ Len(ledger) = settings.questionCount
    /\ \A id \in DOMAIN ledger : ledger[id].scored = 1

====
